---- MODULE Spec2Model ----
(***************************************************************************)
(* Agent execution and lead discovery pipeline of the UAE repository.      *)
(*                                                                         *)
(* JavaScript strings are modelled as TLA+ strings (sequences of           *)
(* characters): Len, SubSeq and \o act on them character by character, so  *)
(* substring, replace, includes and trim are computed as the code computes *)
(* them.  A code segment between two awaits runs to completion in the      *)
(* single-threaded event loop, so every action is one such segment.        *)
(***************************************************************************)
EXTENDS Naturals, Sequences, FiniteSets

VARIABLES
    profile,            \* the profile row handed to execute
    input,              \* the parsed input_data handed to execute
    via,                \* which trigger started the run
    agentType,          \* the agent_type the trigger was given
    inputData,          \* the shape of the raw input_data text of the request
    env,                \* process.env: the configured provider names
    db,                 \* the rows the request finds: profile, contact, integration
    row,                \* the run's agent_runs row
    ledger,             \* history: every terminal UPDATE made to the row, in order
    events,             \* the activity_log rows of the run, in insertion order
    response,           \* what the route has answered, <<>> before it answers
    raised,             \* the error execute's promise rejected with, <<>> if none
    pc,                 \* the await the executor is suspended at
    searchQueries,      \* lead-generator.js:59, the built and deduplicated task list
    idx,                \* index of the task, source or query being awaited
    fetchLog,           \* history: the outcome of every fetch made, in order
    scrapeErrors,       \* lead-generator.js:73
    scrapeSuccesses,    \* lead-generator.js:72
    allScrapedContent,  \* lead-generator.js:71, by its length
    mode,               \* lead-generator.js:122, "" before it is chosen
    llmLog,             \* history: the outcome of every completion call, in order
    contacts,           \* the contacts rows inserted by the run, in order
    sentiment,          \* the sentiment_log rows inserted by the run, in order
    donorIntent,        \* contacts.donor_intent of the contact the run is about
    resolutions,        \* history: every getLLM / getScraper call of the process
    crmLog              \* history: the steps of the donor closer's CRM sync, in order

reqVars == <<profile, input, via, agentType, inputData, env, db>>
leadVars == <<searchQueries, scrapeErrors, scrapeSuccesses, allScrapedContent, mode,
              contacts>>
vars == <<profile, input, via, agentType, inputData, env, db, row, ledger, events,
          response, raised, pc, searchQueries, idx, fetchLog, scrapeErrors,
          scrapeSuccesses, allScrapedContent, mode, llmLog, contacts, sentiment, donorIntent,
          resolutions, crmLog>>

Min(a, b) == IF a < b THEN a ELSE b

(***************************************************************************)
(* String primitives of the JavaScript runtime used by the agents.         *)
(***************************************************************************)

\* String.prototype.substring(from, to), 0-based, end clamped to the length.
Substring(s, from, to) ==
    IF from >= Min(to, Len(s)) THEN "" ELSE SubSeq(s, from + 1, Min(to, Len(s)))

\* String.prototype.includes(pat).
Includes(s, pat) ==
    \E i \in 1..(Len(s) + 1) :
        /\ i + Len(pat) - 1 <= Len(s)
        /\ SubSeq(s, i, i + Len(pat) - 1) = pat

\* String.prototype.indexOf(pat), 1-based here; 0 when pat does not occur.
IndexOf(s, pat) ==
    IF Includes(s, pat)
    THEN CHOOSE i \in 1..(Len(s) + 1) :
            /\ i + Len(pat) - 1 <= Len(s)
            /\ SubSeq(s, i, i + Len(pat) - 1) = pat
            /\ \A j \in 1..(i - 1) : SubSeq(s, j, j + Len(pat) - 1) # pat
    ELSE 0

\* String.prototype.replace(pat, rep) with a string pattern: first occurrence only.
ReplaceFirst(s, pat, rep) ==
    LET i == IndexOf(s, pat)
    IN  IF i = 0 THEN s
        ELSE SubSeq(s, 1, i - 1) \o rep \o SubSeq(s, i + Len(pat), Len(s))

\* String.prototype.endsWith(suffix).
EndsWith(s, suffix) ==
    /\ Len(s) >= Len(suffix)
    /\ SubSeq(s, Len(s) - Len(suffix) + 1, Len(s)) = suffix

\* String.prototype.startsWith(prefix).
StartsWith(s, prefix) ==
    /\ Len(s) >= Len(prefix)
    /\ SubSeq(s, 1, Len(prefix)) = prefix

RECURSIVE TrimStart(_)
TrimStart(s) ==
    IF Len(s) > 0 /\ SubSeq(s, 1, 1) \in {" ", "\n", "\t"}
    THEN TrimStart(SubSeq(s, 2, Len(s)))
    ELSE s

RECURSIVE TrimEnd(_)
TrimEnd(s) ==
    IF Len(s) > 0 /\ SubSeq(s, Len(s), Len(s)) \in {" ", "\n", "\t"}
    THEN TrimEnd(SubSeq(s, 1, Len(s) - 1))
    ELSE s

\* String.prototype.trim().
Trim(s) == TrimEnd(TrimStart(s))

\* s.split('.')[0]: the text before the first full stop.
BeforeFirstDot(s) ==
    LET i == IndexOf(s, ".")
    IN  IF i = 0 THEN s ELSE SubSeq(s, 1, i - 1)

\* Array.prototype.slice(0, n) for n >= 0.
Slice(seq, n) == SubSeq(seq, 1, Min(n, Len(seq)))

\* Array.prototype.filter(Boolean) on an array of strings: '' is falsy.
RECURSIVE FilterBoolean(_)
FilterBoolean(seq) ==
    IF seq = <<>> THEN <<>>
    ELSE IF Head(seq) = "" THEN FilterBoolean(Tail(seq))
    ELSE <<Head(seq)>> \o FilterBoolean(Tail(seq))

(***************************************************************************)
(* Lead generator: query construction (lead-generator.js:19-39, 233-300).  *)
(***************************************************************************)

Tpl(search, type) == [search |-> search, type |-> type]

DEFAULT_SOURCES ==
    [business |-> <<
        Tpl("site:reddit.com \"{service}\" help needed 2025", "reddit"),
        Tpl("site:reddit.com \"{service}\" recommendation 2025", "reddit"),
        Tpl("site:nextdoor.com \"{service}\" looking for", "nextdoor"),
        Tpl("\"{service}\" near me need help 2025", "google"),
        Tpl("site:facebook.com \"{service}\" who do you recommend 2025", "facebook"),
        Tpl("site:twitter.com \"{service}\" need help", "twitter"),
        Tpl("\"{industry}\" emergency help needed today", "google"),
        Tpl("site:yelp.com \"{industry}\" \"{location}\" recent reviews", "yelp") >>,
     political |-> <<
        Tpl("site:reddit.com \"{riding}\" election 2025", "reddit"),
        Tpl("site:reddit.com \"{policy}\" Canada opinion 2025", "reddit"),
        Tpl("\"{riding}\" voters \"{policy}\" concerned 2025", "google"),
        Tpl("site:twitter.com \"{candidate}\" \"{riding}\" 2025", "twitter"),
        Tpl("\"{riding}\" community group \"{policy}\" 2025", "google"),
        Tpl("site:facebook.com \"{riding}\" election discussion 2025", "facebook"),
        Tpl("\"{candidate}\" \"{party}\" supporter 2025", "google") >>]

\* A fetch task {url, type} or {search, type}; the absent property is "" here
\* (undefined and '' are both falsy in every test the code makes on them).
UrlTask(url) == [url |-> url, search |-> "", type |-> "user_source"]
SearchTask(search, type) == [url |-> "", search |-> search, type |-> type]

\* The recencyTerms table (lead-generator.js:237-243).
recencyTerms ==
    [r \in {"1week", "1month", "3months", "6months", "any"} |->
        CASE r = "1week"   -> "past week"
          [] r = "1month"  -> "past month"
          [] r = "3months" -> "2025"
          [] r = "6months" -> "2025"
          [] r = "any"     -> ""]

\* const dateSuffix = recencyTerms[recency] || '2025';  ('' is falsy)
DateSuffix(recency) ==
    IF recency \in DOMAIN recencyTerms /\ recencyTerms[recency] # ""
    THEN recencyTerms[recency]
    ELSE "2025"

\* parseJsonArray (lead-generator.js:424-428).  A stored list field is either
\* absent (<<>>), a JSON array text, or newline-separated text; the field is
\* modelled by its format and its items, and parsing returns the items, the
\* newline format dropping empty lines.
parseJsonArray(field) ==
    IF field = <<>> THEN <<>>
    ELSE IF field[1].fmt = "json" THEN field[1].items
    ELSE FilterBoolean(field[1].items)

\* tpl.search.replace(/ 2025$/, '')
StripYear(search) ==
    IF EndsWith(search, " 2025") THEN SubSeq(search, 1, Len(search) - 5) ELSE search

\* if (dateSuffix) q += ' ' + dateSuffix;
AppendSuffix(q, dateSuffix) == IF dateSuffix # "" THEN q \o " " \o dateSuffix ELSE q

\* One political template instantiated for one pillar (lines 262-268).
PoliticalQuery(p, tpl, pillar, dateSuffix) ==
    LET q0 == ReplaceFirst(StripYear(tpl.search), "{riding}", p.riding_name)
        q1 == ReplaceFirst(q0, "{policy}", pillar)
        q2 == ReplaceFirst(q1, "{candidate}", p.candidate_name)
        q3 == ReplaceFirst(q2, "{party}", p.candidate_party)
    IN  SearchTask(Trim(AppendSuffix(q3, dateSuffix)), tpl.type)

\* (profile.industry_context || '').split('.')[0].substring(0, 40)
IndustryContext(p) == Substring(BeforeFirstDot(p.industry_context), 0, 40)

\* One business template instantiated for one service (lines 273-278).
BusinessQuery(p, tpl, svc, dateSuffix) ==
    LET q0 == ReplaceFirst(StripYear(tpl.search), "{service}", svc)
        q1 == ReplaceFirst(q0, "{industry}", IndustryContext(p))
        q2 == ReplaceFirst(q1, "{location}", "")
    IN  SearchTask(Trim(AppendSuffix(q2, dateSuffix)), tpl.type)

\* The values a template is instantiated for (lines 261 and 272).
TemplateValues(p) ==
    IF p.mode = "political"
    THEN LET pillars == parseJsonArray(p.policy_pillars)
         IN  IF Len(pillars) > 0 THEN Slice(pillars, 2) ELSE <<"policy">>
    ELSE LET services == parseJsonArray(p.service_offerings)
         IN  IF Len(services) > 0 THEN Slice(services, 2) ELSE <<IndustryContext(p)>>

\* The tasks of one template, one per value, in value order.
TemplateTasks(p, tpl, dateSuffix) ==
    LET vals == TemplateValues(p)
    IN  [i \in 1..Len(vals) |->
            IF p.mode = "political"
            THEN PoliticalQuery(p, tpl, vals[i], dateSuffix)
            ELSE BusinessQuery(p, tpl, vals[i], dateSuffix)]

RECURSIVE AllTemplateTasks(_, _, _)
AllTemplateTasks(p, tpls, dateSuffix) ==
    IF tpls = <<>> THEN <<>>
    ELSE TemplateTasks(p, Head(tpls), dateSuffix)
            \o AllTemplateTasks(p, Tail(tpls), dateSuffix)

\* A user keyword, recency-suffixed unless it holds a date token (lines 285-289).
KeywordQuery(k, dateSuffix) ==
    IF dateSuffix # "" /\ ~Includes(k, "2025") /\ ~Includes(k, "week")
                       /\ ~Includes(k, "month")
    THEN SearchTask(k \o " " \o dateSuffix, "keyword")
    ELSE SearchTask(k, "keyword")

\* (x || []) for an optional array: absent is <<>>, present is <<array>>.
OrEmpty(opt) == IF opt = <<>> THEN <<>> ELSE opt[1]

\* The queries array before deduplication (lines 246-290).
ConstructQueries(p, keywords, sources, recency) ==
    LET dateSuffix == DateSuffix(recency)
        urls == FilterBoolean(OrEmpty(sources))
        kws  == FilterBoolean(OrEmpty(keywords))
        tpls == IF p.mode = "political" THEN DEFAULT_SOURCES.political
                                        ELSE DEFAULT_SOURCES.business
    IN  [i \in 1..Len(urls) |-> UrlTask(urls[i])]
            \o AllTemplateTasks(p, tpls, dateSuffix)
            \o [i \in 1..Len(kws) |-> KeywordQuery(kws[i], dateSuffix)]

\* const key = q.url || q.search;
TaskKey(q) == IF q.url # "" THEN q.url ELSE q.search

\* The filter callback over the queries with the seen set (lines 293-299).
RECURSIVE DedupeFrom(_, _)
DedupeFrom(queries, seen) ==
    IF queries = <<>> THEN <<>>
    ELSE LET q == Head(queries)
             key == TaskKey(q)
         IN  IF key \in seen
             THEN DedupeFrom(Tail(queries), seen)
             ELSE <<q>> \o DedupeFrom(Tail(queries), seen \cup {key})

\* A deduplication that forgets to record the keys it has seen.
DedupeForgetful(queries) == queries

Dedupe(queries) == DedupeFrom(queries, {})

buildSearchQueries(p, keywords, sources, recency) ==
    Dedupe(ConstructQueries(p, keywords, sources, recency))

(***************************************************************************)
(* Run ledger and activity log (base-agent.js, helpers/activity.js).       *)
(***************************************************************************)

Err(message) == [message |-> message]

\* A row inserted without the running status.
QueuedRow == [status |-> "queued", output_data |-> [none |-> TRUE]]

\* The row as INSERTed by the trigger (routes/agents.js:60-63).
RunningRow == [status |-> "running", output_data |-> [none |-> TRUE]]

NoRow == [status |-> "absent", output_data |-> [none |-> TRUE]]

\* JSON.stringify({ error: error.message || error })
ErrorPayload(err) ==
    [error |-> IF err.message # "" THEN err.message ELSE "[object Error]"]

\* A completeRun that writes running rows only.
completeRunGuarded(r, outputData) ==
    IF r.status = "running"
    THEN [status |-> "completed", output_data |-> outputData]
    ELSE r

\* BaseAgent.completeRun: the row after its UPDATE.
completeRun(r, outputData) == [status |-> "completed", output_data |-> outputData]

\* A failRun whose UPDATE leaves the status as it was.
failRunWithoutStatus(r, err) == [status |-> r.status, output_data |-> ErrorPayload(err)]

\* BaseAgent.failRun: the row after its UPDATE.
failRun(r, err) == [status |-> "failed", output_data |-> ErrorPayload(err)]

\* The UPDATE of the route's catch handlers (routes/agents.js:70-71, 74-75).
RouteFailUpdate(r, err) == [status |-> "failed", output_data |-> [error |-> err.message]]

\* One entry of the history of terminal writes.
Write(by, r) == [by |-> by, status |-> r.status, output_data |-> r.output_data]

\* emitActivity: the activity_log with one more row.
emitActivity(log, eventType, contactId, detail) ==
    Append(log, [eventType |-> eventType, contactId |-> contactId, detail |-> detail])

\* The executors whose catch block emits agent_error before failRun.
EmitsAgentError(type) == type \in {"lead_generator", "researcher"}

\* A catch block that rethrows without calling failRun.
CatchWithoutFailRun(err, log) ==
    /\ events' = IF EmitsAgentError(agentType)
                 THEN emitActivity(log, "agent_error", 0, err.message)
                 ELSE log
    /\ row' = row
    /\ ledger' = ledger
    /\ raised' = <<err>>
    /\ pc' = "rejected"

\* The catch block of execute: (emit agent_error,) failRun, throw err.
\* `log` is the activity log as the segment that threw left it.
CatchAndRethrow(err, log) ==
    /\ events' = IF EmitsAgentError(agentType)
                 THEN emitActivity(log, "agent_error", 0, err.message)
                 ELSE log
    /\ row' = failRun(row, err)
    /\ ledger' = Append(ledger, Write("failRun", failRun(row, err)))
    /\ raised' = <<err>>
    /\ pc' = "rejected"

\* The last statement of the try block: completeRun, after which execute resolves.
CompleteAndResolve(outputData, log) ==
    /\ events' = log
    /\ row' = completeRun(row, outputData)
    /\ ledger' = Append(ledger, Write("completeRun", completeRun(row, outputData)))
    /\ raised' = raised
    /\ pc' = "resolved"

(***************************************************************************)
(* Lead generator: extraction (lead-generator.js:407-422).                 *)
(***************************************************************************)

\* The code fence.  A backtick cannot be written in a TLA+ string: the
\* apostrophe stands for it throughout.
Fence == "'''"

DropPrefix(s, prefix) ==
    IF StartsWith(s, prefix) THEN SubSeq(s, Len(prefix) + 1, Len(s)) ELSE s

DropSuffix(s, suffix) ==
    IF EndsWith(s, suffix) THEN SubSeq(s, 1, Len(s) - Len(suffix)) ELSE s

\* text.replace(/^```json?\n?/, ''): the fence, "jso", an optional "n", an
\* optional newline.
StripOpeningFence(text) ==
    IF StartsWith(text, Fence \o "jso")
    THEN DropPrefix(DropPrefix(DropPrefix(text, Fence \o "jso"), "n"), "\n")
    ELSE text

\* text.replace(/\n?```$/, ''): the fence at the very end, with the newline
\* before it.
StripClosingFence(text) ==
    IF EndsWith(text, Fence) THEN DropSuffix(DropSuffix(text, Fence), "\n") ELSE text

LeadNames == <<"Ann", "Bob", "Cy", "Dee", "Eli", "Fay", "Gus", "Hal", "Ida", "Jo",
               "Kai", "Lu">>

\* A lead object of the model's answer; absent properties are "" or <<>>.
Lead(name) ==
    [nil |-> FALSE, first_name |-> name, source |-> "", relevance_score |-> <<>>]

\* The JSON value null as an array element.
NullLead ==
    [nil |-> TRUE, first_name |-> "", source |-> "", relevance_score |-> <<>>]

\* A lead object with a source and a relevance score.
ScoredLead(name, source, score) ==
    [nil |-> FALSE, first_name |-> name, source |-> source, relevance_score |-> <<score>>]

\* The scores the model's answers carry, as JSON numbers.
ScoreJson(score) ==
    CASE score = 0 -> "0" [] score = 69 -> "69" [] score = 70 -> "70" [] OTHER -> "85"

\* JSON.stringify of one lead; absent properties are not written.
LeadJson(l) ==
    IF l.nil THEN "null"
    ELSE "{\"first_name\":\"" \o l.first_name \o "\""
            \o (IF l.source # "" THEN ",\"source\":\"" \o l.source \o "\"" ELSE "")
            \o (IF l.relevance_score # <<>>
                THEN ",\"relevance_score\":" \o ScoreJson(l.relevance_score[1]) ELSE "")
            \o "}"

\* An answer as the prompts ask for it: each lead with the source the prompt
\* describes (lead-generator.js:365, 397) and a relevance score.
SimulatedLeads ==
    <<ScoredLead("Ann", "Reddit r/plumbing (simulated)", 70),
      ScoredLead("Bob", "", 69),
      ScoredLead("Cy", "", 0),
      ScoredLead("Dee", "Yelp", 85)>>

RECURSIVE JoinJson(_)
JoinJson(leads) ==
    IF leads = <<>> THEN ""
    ELSE IF Len(leads) = 1 THEN LeadJson(leads[1])
    ELSE LeadJson(leads[1]) \o "," \o JoinJson(Tail(leads))

\* JSON.stringify of an array of leads.
ArrayJson(leads) == "[" \o JoinJson(leads) \o "]"

NamedLeads(n) == [i \in 1..n |-> Lead(LeadNames[i])]

\* The arrays of leads the completion provider's answers hold.
LeadArrays ==
    { NamedLeads(0), NamedLeads(1), NamedLeads(3), NamedLeads(11),
      <<Lead("Ann"), NullLead, Lead("Cy")>>, SimulatedLeads }

\* JSON documents that are valid and are not arrays.
NonArrayJson == {"{\"leads\":[]}", "\"not json\"", "null", "42"}

\* JSON.parse: the documents whose value the model knows; every other text is
\* a syntax error.  JSON allows whitespace around the value.
JsonParse(text) ==
    LET t == Trim(text)
    IN  IF \E a \in LeadArrays : ArrayJson(a) = t
        THEN [ok |-> TRUE, isArray |-> TRUE,
              items |-> CHOOSE a \in LeadArrays : ArrayJson(a) = t]
        ELSE IF t \in NonArrayJson
        THEN [ok |-> TRUE, isArray |-> FALSE, items |-> <<>>]
        ELSE [ok |-> FALSE, isArray |-> FALSE, items |-> <<>>]

\* The text handed to JSON.parse (lead-generator.js:413-416).
StripFences(text) ==
    LET trimmed == Trim(text)
    IN  IF StartsWith(trimmed, Fence)
        THEN StripClosingFence(StripOpeningFence(trimmed))
        ELSE trimmed

\* A parse without the slice.
ParseLeadsUntruncated(text, maxLeads) ==
    LET parsed == JsonParse(StripFences(text))
    IN  IF parsed.ok /\ parsed.isArray THEN parsed.items ELSE <<>>

\* A parse without the try/catch and the Array.isArray test: a text that does
\* not parse, or a value that is no array, makes the caller's loop throw.
ParseLeadsUnguarded(text, maxLeads) ==
    LET parsed == JsonParse(StripFences(text))
    IN  IF parsed.ok /\ parsed.isArray THEN Slice(parsed.items, maxLeads)
        ELSE <<NullLead>>

\* The try/catch after the completion call (lead-generator.js:412-421).
ParseLeads(text, maxLeads) ==
    LET parsed == JsonParse(StripFences(text))
    IN  IF parsed.ok /\ parsed.isArray THEN Slice(parsed.items, maxLeads) ELSE <<>>

(***************************************************************************)
(* Lead generator: execute (lead-generator.js:42-228).                     *)
(***************************************************************************)

DefaultMaxLeads == 10
ContentFloor == 50
TextFloor == 20
LabelLength == 60
ErrorsInEvent == 3
ErrorsInOutput == 5

\* const maxLeads = max_leads || 10;  (undefined and 0 are falsy)
MaxLeads(in) ==
    IF in.max_leads = <<>> \/ in.max_leads[1] = 0
    THEN DefaultMaxLeads
    ELSE in.max_leads[1]

\* const recencyFilter = recency || (profile.mode === 'political' ? '3months' : '1week');
RecencyFilter(p, in) ==
    IF in.recency # "" THEN in.recency
    ELSE IF p.mode = "political" THEN "3months" ELSE "1week"

\* const name = providerOverride || process.env.SCRAPE_PROVIDER || 'basic';
ScraperName(e) == IF e.SCRAPE_PROVIDER # "" THEN e.SCRAPE_PROVIDER ELSE "basic"

\* const name = providerOverride || process.env.LLM_PROVIDER || 'openai';
LlmName(e) == IF e.LLM_PROVIDER # "" THEN e.LLM_PROVIDER ELSE "openai"

\* What one scrape or search call can do: throw, or return texts of these
\* lengths (the content of a page, or the text of each search result).
Threw(message) == [threw |-> TRUE, message |-> message, texts |-> <<>>]
Returned(texts) == [threw |-> FALSE, message |-> "", texts |-> texts]

\* The credential each provider reads from process.env when it is called
\* (providers/scraping/index.js:30, 57, 92; providers/crm/index.js:243, 275);
\* the basic provider reads none.
ScraperKey(e) ==
    IF ScraperName(e) = "firecrawl" THEN "FIRECRAWL_API_KEY"
    ELSE IF ScraperName(e) = "browserbase" THEN "BROWSERBASE_API_KEY"
    ELSE ""

LlmKey(e) == IF LlmName(e) = "anthropic" THEN "ANTHROPIC_API_KEY" ELSE "OPENAI_API_KEY"

\* if (!apiKey) throw new Error('..._API_KEY not set')
KeyMissing(key, e) == key # "" /\ key \notin e.keys

ScrapeOutcomes(e) ==
    IF KeyMissing(ScraperKey(e), e)
    THEN {Threw(ScraperKey(e) \o " not set")}
    ELSE {Threw("Firecrawl scrape HTTP 500: ")}
            \cup {Returned(<<n>>) : n \in {0, ContentFloor, ContentFloor + 1}}

\* BasicFetchProvider.search always throws (providers/scraping/index.js:131-133).
\* BrowserbaseProvider.search always throws too (lines 112-115), before any
\* credential is read.
SearchOutcomes(e) ==
    IF ScraperName(e) = "basic"
    THEN {Threw("Basic fetch provider does not support search")}
    ELSE IF ScraperName(e) = "browserbase"
    THEN {Threw("Browserbase search not implemented - use Firecrawl for search")}
    ELSE IF KeyMissing(ScraperKey(e), e)
    THEN {Threw(ScraperKey(e) \o " not set")}
    ELSE {Threw("Firecrawl search HTTP 500: ")}
            \cup {Returned(t) : t \in {<<>>, <<TextFloor>>, <<TextFloor + 1>>}}

RECURSIVE CountAbove(_, _)
CountAbove(texts, floor) ==
    IF texts = <<>> THEN 0
    ELSE (IF Head(texts) > floor THEN 1 ELSE 0) + CountAbove(Tail(texts), floor)

\* The number of items one returned task pushes on allScrapedContent
\* (lines 76-101): the page if it is longer than 50, each result longer than 20.
Usable(q, out) ==
    IF q.url # ""
    THEN IF Len(out.texts) > 0 /\ out.texts[1] > ContentFloor THEN 1 ELSE 0
    ELSE IF q.search # "" THEN CountAbove(out.texts, TextFloor) ELSE 0

\* A catch that keeps the whole label.
ErrorEntryUntruncated(q, message) == TaskKey(q) \o ": " \o message

\* The catch of one task (lines 102-105).
ErrorEntry(q, message) == Substring(TaskKey(q), 0, LabelLength) \o ": " \o message

RECURSIVE Join(_, _)
Join(strs, sep) ==
    IF strs = <<>> THEN ""
    ELSE IF Len(strs) = 1 THEN strs[1]
    ELSE strs[1] \o sep \o Join(Tail(strs), sep)

\* A mode selection that looks at the errors instead of the content.
SelectModeByErrors(content, successes, errors) ==
    IF Len(errors) = 0 THEN "scraped" ELSE "ai_prospecting"

\* hasScrapedData and mode (lines 121-122).
SelectMode(content, successes, errors) ==
    IF content > 0 /\ successes > 0 THEN "scraped" ELSE "ai_prospecting"

\* A fetch loop after which the errors are reported once analyzing has begun.
AfterFetchLoopErrorsLate(log, errors, successes, content) ==
    LET log1 == emitActivity(log, "analyzing", 0, "")
    IN  /\ mode' = SelectMode(content, successes, errors)
        /\ events' = IF Len(errors) > 0
                      THEN emitActivity(log1, "scrape_errors", 0,
                                        Join(Slice(errors, ErrorsInEvent), " | "))
                      ELSE log1
        /\ pc' = "llm"
        /\ idx' = 0

\* A fetch loop whose scrape_errors event lists every recorded error.
AfterFetchLoopEveryError(log, errors, successes, content) ==
    LET log1 == IF Len(errors) > 0
                THEN emitActivity(log, "scrape_errors", 0, Join(errors, " | "))
                ELSE log
    IN  /\ mode' = SelectMode(content, successes, errors)
        /\ events' = emitActivity(log1, "analyzing", 0, "")
        /\ pc' = "llm"
        /\ idx' = 0

\* After the fetch loop (lines 108-135): the scrape_errors event, the mode,
\* the analyzing event, and the completion call of generateLeads is awaited.
AfterFetchLoop(log, errors, successes, content) ==
    LET log1 == IF Len(errors) > 0
                THEN emitActivity(log, "scrape_errors", 0,
                                  Join(Slice(errors, ErrorsInEvent), " | "))
                ELSE log
    IN  /\ mode' = SelectMode(content, successes, errors)
        /\ events' = emitActivity(log1, "analyzing", 0, "")
        /\ pc' = "llm"
        /\ idx' = 0

\* The first segment of execute (lines 43-77/87): agent_start, the query list,
\* scanning, and the first task's call is awaited.
LeadStart ==
    LET queries == buildSearchQueries(profile, input.keywords, input.sources,
                                      RecencyFilter(profile, input))
        log == emitActivity(emitActivity(<<>>, "agent_start", 0, ""), "scanning", 0, "")
    IN  /\ searchQueries' = queries
        /\ scrapeErrors' = <<>>
        /\ scrapeSuccesses' = 0
        /\ allScrapedContent' = 0
        /\ contacts' = <<>>
        /\ IF Len(queries) > 0
           THEN /\ idx' = 1
                /\ pc' = "fetch"
                /\ events' = log
                /\ mode' = ""
           ELSE AfterFetchLoop(log, <<>>, 0, 0)

\* The call of task idx settles (lines 74-106): its result is kept or its
\* error recorded, and the next task's call, or the completion call, is awaited.
LeadFetchReturns ==
    /\ pc = "fetch"
    /\ agentType = "lead_generator"
    /\ LET q == searchQueries[idx]
       IN  \E out \in (IF q.url # "" THEN ScrapeOutcomes(env)
                                      ELSE SearchOutcomes(env)) :
            LET n == IF out.threw THEN 0 ELSE Usable(q, out)
                errors == IF out.threw
                          THEN Append(scrapeErrors, ErrorEntry(q, out.message))
                          ELSE scrapeErrors
            IN  /\ fetchLog' = Append(fetchLog,
                        [task |-> idx, threw |-> out.threw, message |-> out.message,
                         yielded |-> n])
                /\ scrapeErrors' = errors
                /\ scrapeSuccesses' = scrapeSuccesses + n
                /\ allScrapedContent' = allScrapedContent + n
                /\ IF idx < Len(searchQueries)
                   THEN /\ idx' = idx + 1
                        /\ UNCHANGED <<pc, events, mode>>
                   ELSE AfterFetchLoop(events, errors, scrapeSuccesses + n,
                                       allScrapedContent + n)
    /\ UNCHANGED <<reqVars, resolutions, crmLog, row, ledger, response, raised, searchQueries, llmLog,
                   contacts, sentiment, donorIntent>>

\* An INSERT whose source default does not look at the mode.
ContactRowModeBlind(id, lead, m, p) ==
    [id |-> id,
     first_name |-> IF lead.first_name # "" THEN lead.first_name ELSE "Unknown",
     source |-> IF lead.source # "" THEN lead.source ELSE "web_scrape",
     lead_score |-> IF lead.relevance_score = <<>> \/ lead.relevance_score[1] = 0
                    THEN 50 ELSE lead.relevance_score[1],
     lead_status |-> IF p.mode = "political" THEN "cold"
                     ELSE IF lead.relevance_score # <<>> /\ lead.relevance_score[1] >= 70
                          THEN "warm" ELSE "cold",
     voter_intent |-> "unknown",
     donor_intent |-> "none"]

\* An INSERT that needs a score above 70 for warm.
ContactRowWarmAbove(id, lead, m, p) ==
    [id |-> id,
     first_name |-> IF lead.first_name # "" THEN lead.first_name ELSE "Unknown",
     source |-> IF lead.source # "" THEN lead.source
                ELSE IF m = "ai_prospecting" THEN "ai_prospecting" ELSE "web_scrape",
     lead_score |-> IF lead.relevance_score = <<>> \/ lead.relevance_score[1] = 0
                    THEN 50 ELSE lead.relevance_score[1],
     lead_status |-> IF p.mode = "political" THEN "cold"
                     ELSE IF lead.relevance_score # <<>> /\ lead.relevance_score[1] > 70
                          THEN "warm" ELSE "cold",
     voter_intent |-> "unknown",
     donor_intent |-> "none"]

\* The values of one INSERT INTO contacts (lines 152-170).
ContactRow(id, lead, m, p) ==
    [id |-> id,
     first_name |-> IF lead.first_name # "" THEN lead.first_name ELSE "Unknown",
     source |-> IF lead.source # "" THEN lead.source
                ELSE IF m = "ai_prospecting" THEN "ai_prospecting" ELSE "web_scrape",
     lead_score |-> IF lead.relevance_score = <<>> \/ lead.relevance_score[1] = 0
                    THEN 50 ELSE lead.relevance_score[1],
     lead_status |-> IF p.mode = "political" THEN "cold"
                     ELSE IF lead.relevance_score # <<>> /\ lead.relevance_score[1] >= 70
                          THEN "warm" ELSE "cold",
     voter_intent |-> "unknown",
     donor_intent |-> "none"]

\* A materialization whose lead_found events carry no contact.
RECURSIVE MaterializeUnreferenced(_, _, _, _, _)
MaterializeUnreferenced(leads, created, log, m, p) ==
    IF leads = <<>> THEN [threw |-> FALSE, contacts |-> created, log |-> log]
    ELSE IF Head(leads).nil THEN [threw |-> TRUE, contacts |-> created, log |-> log]
    ELSE LET id == Len(created) + 1
         IN  MaterializeUnreferenced(Tail(leads),
                         Append(created, ContactRow(id, Head(leads), m, p)),
                         emitActivity(log, "lead_found", 0, ""), m, p)

\* The materialization loop (lines 138-183): one INSERT and one lead_found per
\* lead; reading a property of a null element throws a TypeError, which ends
\* the loop with the contacts inserted so far.
RECURSIVE Materialize(_, _, _, _, _)
Materialize(leads, created, log, m, p) ==
    IF leads = <<>> THEN [threw |-> FALSE, contacts |-> created, log |-> log]
    ELSE IF Head(leads).nil THEN [threw |-> TRUE, contacts |-> created, log |-> log]
    ELSE LET id == Len(created) + 1
         IN  Materialize(Tail(leads),
                         Append(created, ContactRow(id, Head(leads), m, p)),
                         emitActivity(log, "lead_found", id, ""), m, p)

\* The argument of completeRun (lines 196-215); scrape_errors is undefined,
\* here <<>>, when no task threw, and else the one list of the first errors.
\* The leads property, a summary of each created contact, is left out.
LeadOutput(created) ==
    [leads_found |-> Len(created),
     mode |-> mode,
     sources_scanned |-> Len(searchQueries),
     sources_successful |-> scrapeSuccesses,
     scrape_errors |-> IF Len(scrapeErrors) > 0
                       THEN <<Slice(scrapeErrors, ErrorsInOutput)>>
                       ELSE <<>>]

\* The answers of the completion provider to the lead generator's prompt.
LeadResponses ==
    { ArrayJson(NamedLeads(0)),
      ArrayJson(NamedLeads(3)),
      ArrayJson(NamedLeads(11)),
      ArrayJson(<<Lead("Ann"), NullLead, Lead("Cy")>>),
      ArrayJson(SimulatedLeads),
      "not json",
      "{\"leads\":[]}",
      " " \o Fence \o "json\n" \o ArrayJson(NamedLeads(3)) \o "\n" \o Fence \o "\n",
      Fence \o "\n" \o ArrayJson(NamedLeads(3)) \o "\n" \o Fence }

LlmThrew(message) == [threw |-> TRUE, message |-> message, text |-> ""]
LlmReturned(text) == [threw |-> FALSE, message |-> "", text |-> text]

LeadLlmOutcomes(e) ==
    IF KeyMissing(LlmKey(e), e)
    THEN {LlmThrew(LlmKey(e) \o " not set")}
    ELSE {LlmThrew("Rate limit reached")} \cup {LlmReturned(t) : t \in LeadResponses}

\* A generateLeads that repeats the completion call once after an error.
LeadLlmReturnsRetrying ==
    /\ pc = "llm"
    /\ agentType = "lead_generator"
    /\ \E out \in LeadLlmOutcomes(env) :
        /\ llmLog' = Append(llmLog, out)
        /\ IF out.threw /\ llmLog = <<>>
           THEN UNCHANGED <<pc, events, row, ledger, raised, contacts>>
           ELSE IF out.threw
           THEN /\ CatchAndRethrow(Err(out.message), events)
                /\ contacts' = contacts
           ELSE LET leads == ParseLeads(out.text, MaxLeads(input))
                    m == Materialize(leads, <<>>, events, mode, profile)
                IN  /\ contacts' = m.contacts
                    /\ IF m.threw
                       THEN CatchAndRethrow(
                                Err("Cannot read properties of null (reading 'first_name')"),
                                m.log)
                       ELSE CompleteAndResolve(
                                LeadOutput(m.contacts),
                                emitActivity(m.log, "agent_complete", 0, ""))
    /\ UNCHANGED <<reqVars, resolutions, crmLog, response, searchQueries, idx, fetchLog,
                   scrapeErrors, scrapeSuccesses, allScrapedContent, mode, sentiment,
                   donorIntent>>

\* The completion call of generateLeads settles (lines 407-421, 135-227): the
\* answer is parsed, the contacts are inserted, and the run is completed; an
\* error of the call or of the materialization goes to the catch block.
LeadLlmReturns ==
    /\ pc = "llm"
    /\ agentType = "lead_generator"
    /\ \E out \in LeadLlmOutcomes(env) :
        /\ llmLog' = Append(llmLog, out)
        /\ IF out.threw
           THEN /\ CatchAndRethrow(Err(out.message), events)
                /\ contacts' = contacts
           ELSE LET leads == ParseLeads(out.text, MaxLeads(input))
                    m == Materialize(leads, <<>>, events, mode, profile)
                IN  /\ contacts' = m.contacts
                    /\ IF m.threw
                       THEN CatchAndRethrow(
                                Err("Cannot read properties of null (reading 'first_name')"),
                                m.log)
                       ELSE CompleteAndResolve(
                                LeadOutput(m.contacts),
                                emitActivity(m.log, "agent_complete", 0, ""))
    /\ UNCHANGED <<reqVars, resolutions, crmLog, response, searchQueries, idx, fetchLog, scrapeErrors,
                   scrapeSuccesses, allScrapedContent, mode, sentiment,
                   donorIntent>>

(***************************************************************************)
(* The six executors of the registry (runner.js:15-25).                    *)
(***************************************************************************)

RegistryTypes ==
    {"researcher", "outreach", "secretary", "issue_scout", "persuader", "donor_closer"}

\* getAgentRunner (runner.js:27-31): if (!Agent) throw new Error(`Unknown
\* agent type: ${agentType}`).
UnknownAgentType(type) == type \notin RegistryTypes

\* The answers of the completion provider to the other executors' prompts.
LlmOutcomes(e) ==
    IF KeyMissing(LlmKey(e), e)
    THEN {LlmThrew(LlmKey(e) \o " not set")}
    ELSE {LlmThrew("Rate limit reached"),
          LlmReturned("Hi Ann, I saw your post about the leak.")}

\* getKnowledgeBase (base-agent.js:54-57): the entries of the profile's
\* knowledge base, [] when the text is absent or does not parse.
getKnowledgeBase(p) == OrEmpty(p.knowledge_base)

\* The position of the first knowledge-base entry after `from` that is fetched
\* (item.startsWith('http')), 0 when there is none (base-agent.js:64-75).
NextHttpItem(kb, from) ==
    IF \E i \in (from + 1)..Len(kb) : StartsWith(kb[i], "http")
    THEN CHOOSE i \in (from + 1)..Len(kb) :
            /\ StartsWith(kb[i], "http")
            /\ \A j \in (from + 1)..(i - 1) : ~StartsWith(kb[j], "http")
    ELSE 0

\* buildKnowledgeContext goes on from entry `from`: the next fetched entry's
\* scrape is awaited, or the context is done and the completion call is awaited.
KnowledgeFrom(from) ==
    LET next == NextHttpItem(getKnowledgeBase(profile), from)
    IN  IF next > 0
        THEN idx' = next /\ pc' = "kb"
        ELSE idx' = 0 /\ pc' = "llm"

\* const riding = riding_override || profile.riding_name || 'General';
\* const queries = sources || defaultSources;  (issue-scout.js:15-24)
ScoutQueries(p, in) ==
    LET riding == IF p.riding_name # "" THEN p.riding_name ELSE "General"
    IN  IF in.sources # <<>> THEN in.sources[1]
        ELSE << riding \o " local news this week",
                riding \o " community concerns 2025",
                p.candidate_party \o " " \o riding \o " voter issues" >>

\* The first segment of a registry executor's execute, up to its first await.
\* Destructuring a null input throws a TypeError inside the try block.
RegistryStart ==
    /\ UNCHANGED leadVars
    /\ IF inputData = "null"
       THEN /\ CatchAndRethrow(Err("Cannot destructure property of null"), <<>>)
            /\ idx' = 0
       ELSE /\ row' = RunningRow
            /\ ledger' = <<>>
            /\ raised' = <<>>
            /\ CASE agentType = "researcher" ->
                    \* researcher.js:15-48
                    LET log == emitActivity(<<>>, "agent_start", 0, "")
                    IN  IF input.target_url # ""
                        THEN /\ events' = emitActivity(log, "scraping", 0, "")
                             /\ pc' = "research" /\ idx' = 1
                        ELSE IF input.target_name # ""
                        THEN /\ events' = emitActivity(log, "searching", 0, "")
                             /\ pc' = "research" /\ idx' = 1
                        ELSE /\ events' = emitActivity(log, "analyzing", 0, "")
                             /\ pc' = "llm" /\ idx' = 0
                 [] agentType = "issue_scout" ->
                    \* issue-scout.js:14-29
                    /\ events' = <<>>
                    /\ IF Len(ScoutQueries(profile, input)) > 0
                       THEN pc' = "scout" /\ idx' = 1
                       ELSE pc' = "llm" /\ idx' = 0
                 [] OTHER ->
                    \* outreach, secretary, persuader, donor_closer
                    /\ events' = <<>>
                    /\ KnowledgeFrom(0)

\* researcher.js:35-56: the scrape or search of the target settles.  It is not
\* inside a try of its own: an error goes to the catch block of execute.
ResearchFetchReturns ==
    /\ pc = "research"
    /\ \E out \in (IF input.target_url # "" THEN ScrapeOutcomes(env)
                                             ELSE SearchOutcomes(env)) :
        /\ fetchLog' = Append(fetchLog,
                [task |-> idx, threw |-> out.threw, message |-> out.message,
                 yielded |-> Len(out.texts)])
        /\ IF out.threw
           THEN CatchAndRethrow(Err(out.message), events)
           ELSE /\ events' = emitActivity(events, "analyzing", 0, "")
                /\ pc' = "llm"
                /\ UNCHANGED <<row, ledger, raised>>
    /\ idx' = 0
    /\ UNCHANGED <<reqVars, resolutions, crmLog, response, leadVars, llmLog, sentiment, donorIntent>>

\* issue-scout.js:27-34: the search of query idx settles; an error is replaced
\* by a '(search failed)' result and the loop goes on.
ScoutSearchReturns ==
    /\ pc = "scout"
    /\ \E out \in SearchOutcomes(env) :
        fetchLog' = Append(fetchLog,
                [task |-> idx, threw |-> out.threw, message |-> out.message,
                 yielded |-> Len(out.texts)])
    /\ IF idx < Len(ScoutQueries(profile, input))
       THEN idx' = idx + 1 /\ pc' = pc
       ELSE idx' = 0 /\ pc' = "llm"
    /\ UNCHANGED <<reqVars, resolutions, crmLog, row, ledger, events, response, raised, leadVars, llmLog,
                   sentiment, donorIntent>>

\* base-agent.js:66-71: the scrape of knowledge-base entry idx settles; an
\* error is replaced by a '(failed to fetch)' chunk and the loop goes on.
KnowledgeScrapeReturns ==
    /\ pc = "kb"
    /\ \E out \in ScrapeOutcomes(env) :
        fetchLog' = Append(fetchLog,
                [task |-> idx, threw |-> out.threw, message |-> out.message,
                 yielded |-> Len(out.texts)])
    /\ KnowledgeFrom(idx)
    /\ UNCHANGED <<reqVars, resolutions, crmLog, row, ledger, events, response, raised, leadVars, llmLog,
                   sentiment, donorIntent>>

\* The ids of the rows of the contacts table when the request arrives.
StoredContacts == {"c1"}

\* sentiment_log.contact_id REFERENCES contacts(id) and foreign keys are
\* enforced: the INSERT of recordSentiment throws for an id that no contacts
\* row has.
SentimentRejected(contactId) == contactId \notin StoredContacts

\* recordSentiment (base-agent.js:81-87): the sentiment_log with one more row.
recordSentiment(log, contactId, issue, score, intentType) ==
    Append(log, [contact_id |-> contactId, issue |-> issue,
                 sentiment_score |-> score, intent_type |-> intentType])

\* An UPDATE without the condition on donor_intent.
WarmUpUnconditionally(intent) == "warm"

\* UPDATE contacts SET donor_intent = 'warm' WHERE id = ? AND donor_intent IN
\* ('none', 'potential')  (donor-closer, part_000:152-155)
WarmUp(intent) == IF intent \in {"none", "potential"} THEN "warm" ELSE intent

\* The argument of completeRun of each registry executor.
RegistryOutput(text) ==
    CASE agentType = "researcher"   -> [research |-> text]
      [] agentType = "issue_scout"  -> [intelligence |-> text]
      [] agentType = "secretary"    -> [analysis |-> text]
      [] agentType = "donor_closer" -> [message |-> text, crm_synced |-> TRUE]
      [] OTHER                      -> [message |-> text]

\* The provider tables (providers/scraping/index.js:136-140,
\* providers/crm/index.js:303-306, 173-179).
ScraperProviders == {"firecrawl", "browserbase", "basic"}
LlmProviders == {"openai", "anthropic"}
CrmProviders ==
    {"constant_contact", "beehiiv", "nationbuilder", "wordpress", "custom_webhook"}

\* The tables are object literals: providers[name] also finds the properties
\* they inherit from Object.prototype.  These are its methods, functions that
\* are no constructors; the inherited "constructor" is Object itself.
ObjectPrototypeMethods ==
    {"toString", "toLocaleString", "valueOf", "hasOwnProperty", "isPrototypeOf",
     "propertyIsEnumerable"}

\* const Provider = providers[name];
\* if (!Provider) throw new Error(`Unknown ... provider: ${name}`);
\* return new Provider();
\* (getScraper, getLLM, getCRM).  `kind` is the word of the message.
ResolveProvider(table, kind, name) ==
    IF name \in table
    THEN [threw |-> FALSE, message |-> "", made |-> name]
    ELSE IF name = "constructor"
    THEN [threw |-> FALSE, message |-> "", made |-> "Object"]
    ELSE IF name \in ObjectPrototypeMethods
    THEN [threw |-> TRUE, message |-> "Provider is not a constructor", made |-> ""]
    ELSE [threw |-> TRUE, message |-> "Unknown " \o kind \o " provider: " \o name,
          made |-> ""]

getLLM(e) == ResolveProvider(LlmProviders, "LLM", LlmName(e))

getScraper(e) == ResolveProvider(ScraperProviders, "scrape", ScraperName(e))

getCRM(providerName) == ResolveProvider(CrmProviders, "CRM", providerName)

\* donor-closer (part_000:175): the sync is attempted when a verified
\* nationbuilder integration exists and the contact has an external_id.
SyncAttempted ==
    /\ db.integration \in {"verified", "badconfig"}
    /\ input.contact # <<>>
    /\ input.contact[1].external_id # ""

\* One step of the sync, and whether it threw.
SyncStep(step, threw) == [step |-> step, threw |-> threw]

\* The synchronous steps of the sync (part_000:168-180): the integration
\* lookup, which throws when the integrations table cannot be read; inside
\* the if, JSON.parse of extra_config, which throws when the stored text is
\* not JSON, and getCRM('nationbuilder', config).
SyncSetup ==
    IF db.integration = "unreadable" THEN <<SyncStep("lookup", TRUE)>>
    ELSE IF ~SyncAttempted THEN <<SyncStep("lookup", FALSE)>>
    ELSE IF db.integration = "badconfig"
    THEN <<SyncStep("lookup", FALSE), SyncStep("parse", TRUE)>>
    ELSE <<SyncStep("lookup", FALSE), SyncStep("parse", FALSE),
           SyncStep("construct", getCRM("nationbuilder").threw)>>

\* The completion call of a registry executor settles: an error goes to the
\* catch block; otherwise the executor's own bookkeeping runs and the run is
\* completed, except that donor_closer may first await the CRM's addTag.
RegistryLlmReturns ==
    /\ pc = "llm"
    /\ agentType \in RegistryTypes
    /\ \E out \in LlmOutcomes(env) :
        /\ llmLog' = Append(llmLog, out)
        /\ IF out.threw
           THEN /\ CatchAndRethrow(Err(out.message), events)
                /\ UNCHANGED <<sentiment, donorIntent, crmLog>>
           ELSE LET hasContact == input.contact # <<>> /\ input.contact[1].id # ""
                    log == IF agentType = "researcher"
                           THEN emitActivity(events, "agent_complete", 0, "")
                           ELSE events
                IN  IF /\ agentType \in {"persuader", "donor_closer"}
                       /\ hasContact
                       /\ SentimentRejected(input.contact[1].id)
                    THEN /\ CatchAndRethrow(Err("FOREIGN KEY constraint failed"), events)
                         /\ UNCHANGED <<sentiment, donorIntent, crmLog>>
                    ELSE
                    /\ sentiment' =
                          IF agentType = "persuader" /\ hasContact
                          THEN recordSentiment(sentiment, input.contact[1].id,
                                               "general", 0, "voter")
                          ELSE IF agentType = "donor_closer" /\ hasContact
                          THEN recordSentiment(sentiment, input.contact[1].id,
                                               "donation_ask", 20, "donor")
                          ELSE sentiment
                    /\ donorIntent' =
                          IF agentType = "donor_closer" /\ hasContact
                          THEN WarmUp(donorIntent) ELSE donorIntent
                    /\ IF agentType = "donor_closer"
                       THEN /\ crmLog' = SyncSetup
                            /\ IF \A i \in 1..Len(SyncSetup) : ~SyncSetup[i].threw
                                  /\ SyncAttempted
                               THEN \* await nb.addTag(...)
                                    /\ pc' = "crm_tag"
                                    /\ UNCHANGED <<row, ledger, events, raised>>
                               ELSE CompleteAndResolve(RegistryOutput(out.text), log)
                       ELSE /\ crmLog' = crmLog
                            /\ CompleteAndResolve(RegistryOutput(out.text), log)
    /\ UNCHANGED <<reqVars, resolutions, response, idx, fetchLog, leadVars>>

\* Whether a request to the CRM resolves.
CrmOutcomes == {TRUE, FALSE}

\* An addNote whose error leaves the try block of execute.
CrmNoteReturnsUncaught ==
    /\ pc = "crm_note"
    /\ \E ok \in CrmOutcomes :
        /\ crmLog' = Append(crmLog, SyncStep("addNote", ~ok))
        /\ IF ok
           THEN CompleteAndResolve(RegistryOutput(llmLog[Len(llmLog)].text), events)
           ELSE CatchAndRethrow(Err("fetch failed"), events)
    /\ UNCHANGED <<reqVars, resolutions, response, idx, fetchLog, leadVars, llmLog, sentiment,
                   donorIntent>>

\* donor-closer (part_000:181-182): addTag settles; an error leaves the sync.
CrmTagReturns ==
    /\ pc = "crm_tag"
    /\ \E ok \in CrmOutcomes :
        /\ crmLog' = Append(crmLog, SyncStep("addTag", ~ok))
        /\ IF ok
           THEN /\ pc' = "crm_note"
                /\ UNCHANGED <<row, ledger, events, raised>>
           ELSE CompleteAndResolve(RegistryOutput(llmLog[Len(llmLog)].text), events)
    /\ UNCHANGED <<reqVars, resolutions, response, idx, fetchLog, leadVars, llmLog, sentiment,
                   donorIntent>>

\* donor-closer (part_000:182-194): addNote settles; the run is completed.
CrmNoteReturns ==
    /\ pc = "crm_note"
    /\ \E ok \in CrmOutcomes :
        /\ crmLog' = Append(crmLog, SyncStep("addNote", ~ok))
        /\ CompleteAndResolve(RegistryOutput(llmLog[Len(llmLog)].text), events)
    /\ UNCHANGED <<reqVars, resolutions, response, idx, fetchLog, leadVars, llmLog, sentiment,
                   donorIntent>>

(***************************************************************************)
(* The triggering routes (routes/agents.js:44-84, routes/queue.js:123-177) *)
(* and the direct call of the lead generator's execute.                    *)
(***************************************************************************)

\* new Agent() runs the BaseAgent constructor (base-agent.js:12-17): getLLM,
\* then getScraper; it throws when either does.
ConstructorThrows(e) == getLLM(e).threw \/ getScraper(e).threw

ConstructorError(e) ==
    IF getLLM(e).threw THEN Err(getLLM(e).message) ELSE Err(getScraper(e).message)

\* The resolutions one new Agent() makes, in order: getLLM, and getScraper if
\* getLLM returned.
ConstructorResolutions(e) ==
    <<[kind |-> "LLM", name |-> LlmName(e), made |-> getLLM(e).made]>>
        \o IF getLLM(e).threw THEN <<>>
           ELSE <<[kind |-> "scrape", name |-> ScraperName(e),
                   made |-> getScraper(e).made]>>

\* The route after the INSERT: the try block around getAgentRunner and the
\* first segment of execute, its catch block, and the response.
LaunchFromRoute ==
    /\ resolutions' = resolutions \o ConstructorResolutions(env)
    /\ IF ConstructorThrows(env) \/ inputData = "unparsable"
       THEN LET err == IF ConstructorThrows(env) THEN ConstructorError(env)
                       ELSE Err("Unexpected token in JSON")
            IN  /\ row' = RouteFailUpdate(RunningRow, err)
                /\ ledger' = <<Write("route", RouteFailUpdate(RunningRow, err))>>
                /\ raised' = <<>>
                /\ pc' = "unlaunched"
                /\ events' = <<>>
                /\ idx' = 0
                /\ UNCHANGED leadVars
       ELSE RegistryStart

\* POST /agents/run (routes/agents.js:44-84).
TriggerAgentsRun ==
    /\ pc = "idle"
    /\ via = "agents_run"
    /\ IF ~db.profile_found
       THEN \* if (!profile) return res.json({ error: 'Profile not found.' })
            /\ response' = "profile_not_found"
            /\ pc' = "refused"
            /\ UNCHANGED <<row, ledger, events, raised, idx, leadVars, resolutions>>
       ELSE IF agentType \notin RegistryTypes
       THEN \* the INSERT violates the CHECK on agent_type (part_003:163-180):
            \* the handler throws before any response is written
            /\ response' = ""
            /\ pc' = "insert_failed"
            /\ UNCHANGED <<row, ledger, events, raised, idx, leadVars, resolutions>>
       ELSE /\ response' = "running"
            /\ LaunchFromRoute
    /\ UNCHANGED <<reqVars, fetchLog, llmLog, sentiment, donorIntent, crmLog>>

\* POST /queue/:contactId/draft (routes/queue.js:123-177).
TriggerQueueDraft ==
    /\ pc = "idle"
    /\ via = "queue_draft"
    /\ IF ~db.contact_found
       THEN \* if (!contact) return res.status(404).json(...)
            /\ response' = "contact_not_found"
            /\ pc' = "refused"
            /\ UNCHANGED <<row, ledger, events, raised, idx, leadVars, resolutions>>
       ELSE /\ response' = "running"
            /\ LaunchFromRoute
    /\ UNCHANGED <<reqVars, fetchLog, llmLog, sentiment, donorIntent, crmLog>>

\* The .catch(err => UPDATE ... 'failed') attached to the promise of execute
\* (routes/agents.js:69-72, routes/queue.js:167-170) runs after it rejects.
RouteCatchHandler ==
    /\ pc = "rejected"
    /\ via \in {"agents_run", "queue_draft"}
    /\ row' = RouteFailUpdate(row, raised[1])
    /\ ledger' = Append(ledger, Write("route", RouteFailUpdate(row, raised[1])))
    /\ pc' = "handled"
    /\ UNCHANGED <<reqVars, resolutions, crmLog, events, response, raised, idx, fetchLog, leadVars, llmLog,
                   sentiment, donorIntent>>

\* LeadGeneratorAgent.execute called on a run whose row its caller inserted
\* as running (lead-generator.js:42-77).
LeadExecute ==
    /\ pc = "idle"
    /\ via = "execute"
    /\ IF inputData = "null"
       THEN /\ CatchAndRethrow(Err("Cannot destructure property of null"), <<>>)
            /\ idx' = 0
            /\ UNCHANGED leadVars
       ELSE /\ LeadStart
            /\ UNCHANGED <<row, ledger, raised>>
    /\ UNCHANGED <<reqVars, resolutions, crmLog, response, fetchLog, llmLog, sentiment, donorIntent>>

(***************************************************************************)
(* The requests explored.                                                  *)
(***************************************************************************)

\* An input object none of whose properties is present ({} after JSON.parse).
EmptyInput ==
    [sources |-> <<>>, keywords |-> <<>>, max_leads |-> <<>>, recency |-> "",
     target_url |-> "", target_name |-> "", contact |-> <<>>]

Plumber ==
    [id |-> "p1", mode |-> "business",
     service_offerings |-> <<>>, policy_pillars |-> <<>>,
     industry_context |-> "Emergency plumbing. Open 24/7",
     riding_name |-> "", candidate_name |-> "", candidate_party |-> "",
     knowledge_base |-> << <<"We fix leaks", "https://plumber.example/faq">> >>]

Roofer ==
    [id |-> "p3", mode |-> "business",
     service_offerings |-> <<[fmt |-> "lines", items |-> <<"roof repair", "", "gutters", "siding">>]>>,
     policy_pillars |-> <<>>,
     industry_context |-> "",
     riding_name |-> "", candidate_name |-> "", candidate_party |-> "",
     knowledge_base |-> << <<"https://roofer.example/a", "https://roofer.example/b">> >>]

Campaign ==
    [id |-> "p2", mode |-> "political",
     service_offerings |-> <<>>,
     policy_pillars |-> <<[fmt |-> "json", items |-> <<"housing">>]>>,
     industry_context |-> "",
     riding_name |-> "Ottawa Centre", candidate_name |-> "Jo Roy",
     candidate_party |-> "Green",
     knowledge_base |-> <<>>]

Slate ==
    [id |-> "p4", mode |-> "political",
     service_offerings |-> <<>>,
     policy_pillars |-> <<[fmt |-> "json", items |-> <<"housing", "transit", "taxes">>]>>,
     industry_context |-> "",
     riding_name |-> "Ottawa Centre", candidate_name |-> "Jo Roy",
     candidate_party |-> "Green",
     knowledge_base |-> <<>>]

\* process.env: the provider names and the credentials that are set.
Env(scraper, llm, keys) == [SCRAPE_PROVIDER |-> scraper, LLM_PROVIDER |-> llm, keys |-> keys]

DefaultEnv == Env("", "", {"OPENAI_API_KEY"})
FirecrawlEnv == Env("firecrawl", "anthropic", {"ANTHROPIC_API_KEY", "FIRECRAWL_API_KEY"})
BrowserbaseEnv == Env("browserbase", "openai", {"OPENAI_API_KEY", "BROWSERBASE_API_KEY"})
BadLlmEnv == Env("", "gemini", {"OPENAI_API_KEY"})
BadScraperEnv == Env("puppeteer", "", {"OPENAI_API_KEY"})
InheritedLlmEnv == Env("", "toString", {"OPENAI_API_KEY"})
NoLlmKeyEnv == Env("", "", {})
NoFirecrawlKeyEnv == Env("firecrawl", "anthropic", {"ANTHROPIC_API_KEY"})
NoBrowserbaseKeyEnv == Env("browserbase", "openai", {"OPENAI_API_KEY"})

\* The rows the request's lookups find.
Db(profileFound, contactFound, integration) ==
    [profile_found |-> profileFound, contact_found |-> contactFound,
     integration |-> integration]

FoundDb == Db(TRUE, TRUE, "none")

Contact(id, externalId) == <<[id |-> id, external_id |-> externalId]>>

Request(v, type, data, in, p, e, d, intent) ==
    [via |-> v, agentType |-> type, inputData |-> data, input |-> in,
     profile |-> p, env |-> e, db |-> d, donorIntent |-> intent]

LongUrl == "https://forum.example/threads/who-can-fix-a-burst-pipe-tonight-in-ottawa"

ResearcherRequests ==
    { Request("agents_run", "researcher", "object",
              [EmptyInput EXCEPT !.target_url = t[1], !.target_name = t[2]],
              Plumber, e, FoundDb, "none") :
        t \in { <<"https://acme.example", "">>, <<"", "Acme Corp">>, <<"", "">> },
        e \in {DefaultEnv, FirecrawlEnv, BrowserbaseEnv, NoLlmKeyEnv, NoFirecrawlKeyEnv,
                NoBrowserbaseKeyEnv} }

ScoutRequests ==
    { Request("agents_run", "issue_scout", "object",
              [EmptyInput EXCEPT !.sources = s], Campaign, e, FoundDb, "none") :
        s \in { <<>>, << <<>> >>, << <<"Ottawa Centre rent", "LRT delays">> >> },
        e \in {DefaultEnv, FirecrawlEnv, NoLlmKeyEnv, NoFirecrawlKeyEnv} }

KnowledgeRequests ==
    { Request("agents_run", type, "object",
              [EmptyInput EXCEPT !.contact = c], p, e, FoundDb, "none") :
        type \in {"outreach", "secretary", "persuader"},
        c \in { <<>>, Contact("c1", "") },
        p \in {Plumber, Roofer, Campaign},
        e \in {DefaultEnv, NoLlmKeyEnv, NoFirecrawlKeyEnv} }

DonorRequests ==
    { Request("agents_run", "donor_closer", "object",
              [EmptyInput EXCEPT !.contact = c], Campaign, DefaultEnv,
              Db(TRUE, TRUE, integration), intent) :
        c \in { <<>>, Contact("c1", ""), Contact("c1", "nb7"), Contact("", "nb7"),
                Contact("c9", "nb7") },
        integration \in {"none", "verified", "badconfig", "unreadable"},
        intent \in {"none", "potential", "warm", "donated"} }

\* input_data absent, the text 'null', or text that is not JSON; a provider
\* name outside the tables; an agent_type outside the registry; no profile.
OddRequests ==
    { Request("agents_run", type, data, EmptyInput, Plumber, DefaultEnv, FoundDb, "none") :
        type \in {"researcher", "secretary"},
        data \in {"absent", "null", "unparsable"} }
    \cup
    { Request("agents_run", "outreach", "object", EmptyInput, Plumber, e, FoundDb, "none") :
        e \in {BadLlmEnv, BadScraperEnv, InheritedLlmEnv} }
    \cup
    { Request("agents_run", type, "object", EmptyInput, Plumber, DefaultEnv, d, "none") :
        type \in {"lead_generator", "janitor", "researcher"},
        d \in {FoundDb, Db(FALSE, FALSE, "none")} }

\* The draft route builds the input itself: a contact without id.
QueueRequests ==
    { Request("queue_draft", "outreach", "object",
              [EmptyInput EXCEPT !.contact = Contact("", "")], p, e, d, "none") :
        p \in {Plumber, Roofer, Campaign},
        e \in {DefaultEnv, BadLlmEnv},
        d \in {FoundDb, Db(TRUE, FALSE, "none")} }

LeadRequests ==
    { Request("execute", "lead_generator", "object",
              [EmptyInput EXCEPT !.recency = "1week"], Campaign,
              FirecrawlEnv, FoundDb, "none"),
      Request("execute", "lead_generator", "null", EmptyInput, Plumber,
              DefaultEnv, FoundDb, "none") }
    \cup
    { Request("execute", "lead_generator", "object",
              [EmptyInput EXCEPT !.sources = s], Plumber, e, FoundDb, "none") :
        s \in { <<>>, << <<LongUrl>> >> },
        e \in {NoLlmKeyEnv, NoFirecrawlKeyEnv, NoBrowserbaseKeyEnv} }
    \cup
    { Request("execute", "lead_generator", "object",
              [EmptyInput EXCEPT !.sources = s, !.max_leads = m, !.recency = r],
              p, DefaultEnv, FoundDb, "none") :
        s \in { <<>>, << <<LongUrl>> >> },
        m \in { <<>>, <<0>>, <<1>>, <<2>>, <<3>> },
        r \in { "", "any" },
        p \in {Plumber, Campaign} }

Requests ==
    ResearcherRequests \cup ScoutRequests \cup KnowledgeRequests \cup DonorRequests
        \cup OddRequests \cup QueueRequests \cup LeadRequests

\* The state when the request arrives.  A run started by a direct call of
\* execute has its row already, inserted as running by the caller.
Arrive(req) ==
    /\ via = req.via
    /\ agentType = req.agentType
    /\ inputData = req.inputData
    /\ input = req.input
    /\ profile = req.profile
    /\ env = req.env
    /\ db = req.db
    /\ donorIntent = req.donorIntent
    /\ row = IF req.via = "execute" THEN RunningRow ELSE NoRow
    /\ ledger = <<>>
    /\ events = <<>>
    /\ response = ""
    /\ raised = <<>>
    /\ pc = "idle"
    /\ searchQueries = <<>>
    /\ idx = 0
    /\ fetchLog = <<>>
    /\ scrapeErrors = <<>>
    /\ scrapeSuccesses = 0
    /\ allScrapedContent = 0
    /\ mode = ""
    /\ llmLog = <<>>
    /\ contacts = <<>>
    /\ sentiment = <<>>
    /\ resolutions = <<>>
    /\ crmLog = <<>>

Init == \E req \in Requests : Arrive(req)

Next ==
    \/ TriggerAgentsRun
    \/ TriggerQueueDraft
    \/ RouteCatchHandler
    \/ LeadExecute
    \/ LeadFetchReturns
    \/ LeadLlmReturns
    \/ ResearchFetchReturns
    \/ ScoutSearchReturns
    \/ KnowledgeScrapeReturns
    \/ RegistryLlmReturns
    \/ CrmTagReturns
    \/ CrmNoteReturns

Spec == Init /\ [][Next]_vars

\* What the process does for a run once execute has been called: execute's
\* segments, each resumed when the provider call it awaits settles, and the
\* route's .catch.
RunProgress ==
    \/ RouteCatchHandler
    \/ LeadFetchReturns
    \/ LeadLlmReturns
    \/ ResearchFetchReturns
    \/ ScoutSearchReturns
    \/ KnowledgeScrapeReturns
    \/ RegistryLlmReturns
    \/ CrmTagReturns
    \/ CrmNoteReturns

\* Every provider call settles and the event loop runs every callback that
\* is ready.
FairSpec == Spec /\ WF_vars(RunProgress)

(***************************************************************************)
(* buildSearchQueries over a wider range of profiles, sources, keywords    *)
(* and recency values, through the first segment of execute.               *)
(***************************************************************************)

BuildRecencies == {"", "1week", "1month", "3months", "6months", "any", "yearly"}

BuildSources ==
    { <<>>, << <<>> >>, << <<LongUrl>> >>,
      << <<"https://a.example", "", "https://b.example", "https://a.example">> >>,
      << <<"roof leak this week">> >> }

BuildKeywords ==
    { <<>>, << <<"burst pipe">> >>,
      << <<"roof leak this week", "burst pipe", "", "burst pipe", "rent 2025">> >> }

BuildRequests ==
    { Request("execute", "lead_generator", "object",
              [EmptyInput EXCEPT !.sources = s, !.keywords = k, !.recency = r],
              p, DefaultEnv, FoundDb, "none") :
        s \in BuildSources, k \in BuildKeywords, r \in BuildRecencies,
        p \in {Plumber, Roofer, Campaign, Slate} }

BuildInit == \E req \in BuildRequests : Arrive(req)

BuildSpec == BuildInit /\ [][LeadExecute]_vars

(***************************************************************************)
(* One process serving several requests, one after the other, with the     *)
(* provider configuration changing between them.                           *)
(***************************************************************************)

\* The number of requests of one process that are explored.
MaxRuns == 2

ProcessEnvs == {DefaultEnv, FirecrawlEnv}

ProcessRequests ==
    { Request("agents_run", type, "object", EmptyInput, p, e, FoundDb, "none") :
        type \in {"secretary", "outreach"}, p \in {Plumber, Campaign}, e \in ProcessEnvs }

ProcessInit == \E req \in ProcessRequests : Arrive(req)

\* The run is over and nothing of it is pending.
RunOver == pc \in {"resolved", "handled", "unlaunched", "refused"}

\* The next POST /agents/run of the same process arrives (routes/agents.js:
\* 44-48): a new run, of which nothing exists yet; process.env and what the
\* process has resolved so far stay.
NextRequest ==
    /\ RunOver
    /\ Len(resolutions) < Len(ConstructorResolutions(env)) * MaxRuns
    /\ \E req \in ProcessRequests :
        /\ req.env = env
        /\ via' = req.via
        /\ agentType' = req.agentType
        /\ inputData' = req.inputData
        /\ input' = req.input
        /\ profile' = req.profile
        /\ db' = req.db
        /\ donorIntent' = req.donorIntent
    /\ row' = NoRow
    /\ ledger' = <<>>
    /\ events' = <<>>
    /\ response' = ""
    /\ raised' = <<>>
    /\ pc' = "idle"
    /\ searchQueries' = <<>>
    /\ idx' = 0
    /\ fetchLog' = <<>>
    /\ scrapeErrors' = <<>>
    /\ scrapeSuccesses' = 0
    /\ allScrapedContent' = 0
    /\ mode' = ""
    /\ llmLog' = <<>>
    /\ contacts' = <<>>
    /\ sentiment' = <<>>
    /\ crmLog' = <<>>
    /\ UNCHANGED <<env, resolutions>>

\* LLM_PROVIDER / SCRAPE_PROVIDER of process.env are set to other values
\* between two requests (providers/crm/index.js:309 and
\* providers/scraping/index.js:143 read them at every call).
Reconfigure ==
    /\ RunOver
    /\ \E e \in ProcessEnvs \ {env} : env' = e
    /\ UNCHANGED <<profile, input, via, agentType, inputData, db, row, ledger, events,
                   response, raised, pc, searchQueries, idx, fetchLog, scrapeErrors,
                   scrapeSuccesses, allScrapedContent, mode, llmLog, contacts,
                   sentiment, donorIntent, resolutions, crmLog>>

ProcessNext ==
    \/ TriggerAgentsRun
    \/ KnowledgeScrapeReturns
    \/ RegistryLlmReturns
    \/ RouteCatchHandler
    \/ NextRequest
    \/ Reconfigure

ProcessSpec == ProcessInit /\ [][ProcessNext]_vars

(***************************************************************************)
(* completeRun and failRun called in any sequence on one run               *)
(* (base-agent.js:30-51).                                                  *)
(***************************************************************************)

\* The number of terminal calls made on the run.
MaxCalls == 3

\* Arguments of completeRun and of failRun.
TerminalOutputs ==
    { [message |-> "Hi Ann"], [analysis |-> "Book a visit"],
      [message |-> "Thanks", crm_synced |-> TRUE] }

TerminalErrors ==
    { Err("OPENAI_API_KEY not set"), Err("Rate limit reached"),
      Err("Cannot destructure property of null") }

LedgerInit ==
    Arrive(Request("execute", "lead_generator", "object", EmptyInput, Plumber,
                   DefaultEnv, FoundDb, "none"))

\* this.completeRun(runId, outputData): UPDATE agent_runs SET status =
\* 'completed', output_data = ? WHERE id = ?.  The ledger keeps the statement
\* with the values it sets; the row is what the table holds after it.
CallCompleteRun ==
    /\ Len(ledger) < MaxCalls
    /\ \E outputData \in TerminalOutputs :
        /\ row' = completeRun(row, outputData)
        /\ ledger' = Append(ledger, [by |-> "completeRun", status |-> "completed",
                                     output_data |-> outputData])
    /\ UNCHANGED <<reqVars, resolutions, crmLog, events, response, raised, pc, idx, fetchLog,
                   leadVars, llmLog, sentiment, donorIntent>>

\* this.failRun(runId, error): UPDATE agent_runs SET status = 'failed',
\* output_data = ? WHERE id = ?.
CallFailRun ==
    /\ Len(ledger) < MaxCalls
    /\ \E err \in TerminalErrors :
        /\ row' = failRun(row, err)
        /\ ledger' = Append(ledger, [by |-> "failRun", status |-> "failed",
                                     output_data |-> [error |-> err.message]])
    /\ UNCHANGED <<reqVars, resolutions, crmLog, events, response, raised, pc, idx, fetchLog,
                   leadVars, llmLog, sentiment, donorIntent>>

LedgerSpec == LedgerInit /\ [][CallCompleteRun \/ CallFailRun]_vars

(***************************************************************************)
(* Several donor_closer runs on one contact, in flight at the same time    *)
(* (part_000:107-200, routes/agents.js:44-84).  In this specification the  *)
(* variables of a run (row, ledger, response, raised, pc, llmLog, crmLog)  *)
(* hold one value per run; the contacts row and the sentiment_log are      *)
(* shared.                                                                 *)
(***************************************************************************)

\* The number of runs in flight.
MaxDonorRuns == 2

DonorInit ==
    /\ via = "agents_run"
    /\ agentType = "donor_closer"
    /\ inputData = "object"
    /\ \E c \in { Contact("c1", ""), Contact("c1", "nb7"), Contact("", "nb7"),
                  Contact("c9", "") } :
        input = [EmptyInput EXCEPT !.contact = c]
    /\ profile = Campaign
    /\ env = DefaultEnv
    /\ \E integration \in {"none", "verified"} : db = Db(TRUE, TRUE, integration)
    /\ donorIntent \in {"none", "potential", "warm", "donated"}
    /\ row = [r \in 1..MaxDonorRuns |-> NoRow]
    /\ ledger = [r \in 1..MaxDonorRuns |-> <<>>]
    /\ response = [r \in 1..MaxDonorRuns |-> ""]
    /\ raised = [r \in 1..MaxDonorRuns |-> <<>>]
    /\ pc = [r \in 1..MaxDonorRuns |-> "idle"]
    /\ llmLog = [r \in 1..MaxDonorRuns |-> <<>>]
    /\ crmLog = [r \in 1..MaxDonorRuns |-> <<>>]
    /\ events = <<>>
    /\ searchQueries = <<>>
    /\ idx = 0
    /\ fetchLog = <<>>
    /\ scrapeErrors = <<>>
    /\ scrapeSuccesses = 0
    /\ allScrapedContent = 0
    /\ mode = ""
    /\ contacts = <<>>
    /\ sentiment = <<>>
    /\ resolutions = <<>>

\* completeRun of run r (part_000:189-194).
DonorComplete(r, text) ==
    LET outputData == RegistryOutput(text)
    IN  /\ row' = [row EXCEPT ![r] = completeRun(row[r], outputData)]
        /\ ledger' = [ledger EXCEPT
                        ![r] = Append(@, Write("completeRun", completeRun(row[r], outputData)))]
        /\ pc' = [pc EXCEPT ![r] = "resolved"]
        /\ raised' = raised

\* The catch block of run r (part_000:196-199).
DonorFail(r, err) ==
    /\ row' = [row EXCEPT ![r] = failRun(row[r], err)]
    /\ ledger' = [ledger EXCEPT ![r] = Append(@, Write("failRun", failRun(row[r], err)))]
    /\ pc' = [pc EXCEPT ![r] = "rejected"]
    /\ raised' = [raised EXCEPT ![r] = <<err>>]

\* POST /agents/run for run r: the INSERT, execute up to the await of the
\* completion call (the profile has no knowledge base), and the response.
DonorTrigger(r) ==
    /\ pc[r] = "idle"
    /\ row' = [row EXCEPT ![r] = RunningRow]
    /\ response' = [response EXCEPT ![r] = "running"]
    /\ pc' = [pc EXCEPT ![r] = "llm"]
    /\ UNCHANGED <<reqVars, leadVars, events, idx, fetchLog, resolutions, ledger, raised, llmLog, crmLog, sentiment, donorIntent>>

\* The completion call of run r settles (part_000:147-199): the contact's
\* UPDATE and the sentiment row, then the sync up to its first await.
DonorLlmReturns(r) ==
    /\ pc[r] = "llm"
    /\ \E out \in LlmOutcomes(env) :
        /\ llmLog' = [llmLog EXCEPT ![r] = Append(@, out)]
        /\ LET hasContact == input.contact # <<>> /\ input.contact[1].id # ""
           IN  IF out.threw
               THEN /\ DonorFail(r, Err(out.message))
                    /\ UNCHANGED <<sentiment, donorIntent, crmLog>>
               ELSE IF hasContact /\ SentimentRejected(input.contact[1].id)
               THEN /\ DonorFail(r, Err("FOREIGN KEY constraint failed"))
                    /\ UNCHANGED <<sentiment, donorIntent, crmLog>>
               ELSE /\ donorIntent' = IF hasContact THEN WarmUp(donorIntent) ELSE donorIntent
                    /\ sentiment' =
                          IF hasContact
                          THEN recordSentiment(sentiment, input.contact[1].id,
                                               "donation_ask", 20, "donor")
                          ELSE sentiment
                    /\ crmLog' = [crmLog EXCEPT ![r] = SyncSetup]
                    /\ IF SyncAttempted /\ \A i \in 1..Len(SyncSetup) : ~SyncSetup[i].threw
                       THEN /\ pc' = [pc EXCEPT ![r] = "crm_tag"]
                            /\ UNCHANGED <<row, ledger, raised>>
                       ELSE DonorComplete(r, out.text)
    /\ UNCHANGED <<reqVars, leadVars, events, idx, fetchLog, resolutions, response>>

\* addTag of run r settles (part_000:181).
DonorTagReturns(r) ==
    /\ pc[r] = "crm_tag"
    /\ \E ok \in CrmOutcomes :
        /\ crmLog' = [crmLog EXCEPT ![r] = Append(@, SyncStep("addTag", ~ok))]
        /\ IF ok
           THEN /\ pc' = [pc EXCEPT ![r] = "crm_note"]
                /\ UNCHANGED <<row, ledger, raised>>
           ELSE DonorComplete(r, llmLog[r][1].text)
    /\ UNCHANGED <<reqVars, leadVars, events, idx, fetchLog, resolutions, response, llmLog, sentiment, donorIntent>>

\* addNote of run r settles (part_000:182-194).
DonorNoteReturns(r) ==
    /\ pc[r] = "crm_note"
    /\ \E ok \in CrmOutcomes :
        crmLog' = [crmLog EXCEPT ![r] = Append(@, SyncStep("addNote", ~ok))]
    /\ DonorComplete(r, llmLog[r][1].text)
    /\ UNCHANGED <<reqVars, leadVars, events, idx, fetchLog, resolutions, response, llmLog, sentiment, donorIntent>>

\* The route's .catch of run r (routes/agents.js:69-72).
DonorRouteCatch(r) ==
    /\ pc[r] = "rejected"
    /\ row' = [row EXCEPT ![r] = RouteFailUpdate(row[r], raised[r][1])]
    /\ ledger' = [ledger EXCEPT
                    ![r] = Append(@, Write("route", RouteFailUpdate(row[r], raised[r][1])))]
    /\ pc' = [pc EXCEPT ![r] = "handled"]
    /\ UNCHANGED <<reqVars, leadVars, events, idx, fetchLog, resolutions, response, raised, llmLog, crmLog, sentiment, donorIntent>>

DonorNext ==
    \E r \in 1..MaxDonorRuns :
        \/ DonorTrigger(r)
        \/ DonorLlmReturns(r)
        \/ DonorTagReturns(r)
        \/ DonorNoteReturns(r)
        \/ DonorRouteCatch(r)

DonorSpec == DonorInit /\ [][DonorNext]_vars

(***************************************************************************)
(* Properties.                                                             *)
(***************************************************************************)

\* C1: a run started through POST /agents/run or POST /queue/:contactId/draft
\* gets exactly one terminal write on its agent_runs row: never more than one
\* UPDATE to completed or failed, and exactly one once the run is over.
C1_ExactlyOneTerminalWrite ==
    via \in {"agents_run", "queue_draft"} /\ row.status # "absent" =>
        /\ Len(ledger) <= 1
        /\ pc \in {"resolved", "handled", "unlaunched"} => Len(ledger) = 1

\* C2: terminal states are final: from a row that is completed or failed no
\* step changes the status, and no step writes the row again.
C2_TerminalStatesFinal ==
    [][ row.status \in {"completed", "failed"} =>
            /\ row'.status = row.status
            /\ ledger' = ledger ]_vars

\* C3: in every executor, an error thrown inside execute (by the completion
\* call, by the researcher's scrape or search, by reading a null input or a
\* null lead) makes execute call failRun, which writes status failed and
\* output_data {error: message}, and reject with that same error; an execute
\* that resolves has called completeRun, which writes status completed, and
\* has raised nothing.
C3_ThrowFailsAndRethrows ==
    LET thrown ==
            IF inputData = "null"
                  /\ pc \notin {"idle", "refused", "insert_failed", "unlaunched"}
            THEN <<"Cannot destructure property of null">>
            ELSE IF llmLog # <<>> /\ llmLog[Len(llmLog)].threw
            THEN <<llmLog[Len(llmLog)].message>>
            ELSE IF agentType = "researcher" /\ fetchLog # <<>>
                        /\ fetchLog[Len(fetchLog)].threw
            THEN <<fetchLog[Len(fetchLog)].message>>
            ELSE <<>>
    IN  /\ thrown # <<>> =>
            /\ pc \in {"rejected", "handled"}
            /\ raised = <<Err(thrown[1])>>
        /\ pc \in {"rejected", "handled"} =>
            /\ raised # <<>>
            /\ ledger # <<>>
            /\ ledger[1] = [by |-> "failRun", status |-> "failed",
                            output_data |-> [error |-> raised[1].message]]
        /\ pc = "rejected" =>
            /\ row.status = "failed"
            /\ row.output_data = [error |-> raised[1].message]
        /\ pc = "resolved" =>
            /\ raised = <<>>
            /\ row.status = "completed"
            /\ ledger = <<Write("completeRun", row)>>

\* C3 witness: the donor closer's completion call threw, and execute has
\* written the failed row and rejected.
C3_Witness ==
    /\ agentType = "donor_closer"
    /\ pc = "rejected"
    /\ llmLog # <<>> /\ llmLog[Len(llmLog)].threw
    /\ raised = <<Err(llmLog[Len(llmLog)].message)>>
    /\ row.status = "failed"

\* C4: in the lead generator a task that throws never ends the fetch loop:
\* the tasks of the query list are attempted once each, in list order, one at
\* a time; the error list holds, in order, one entry per task that threw, the
\* task's url or search string cut to 60 characters, ": ", and the message;
\* and the completion call is made only after every task was attempted, and
\* is made before the run can end.
C4_FetchLoopNeverAborts ==
    via = "execute" /\ inputData # "null" /\ pc # "idle" =>
        LET n == Len(fetchLog)
            thrown == {i \in 1..n : fetchLog[i].threw}
            label(q) == LET key == IF q.url # "" THEN q.url ELSE q.search
                        IN  IF Len(key) > 60 THEN SubSeq(key, 1, 60) ELSE key
        IN  /\ n <= Len(searchQueries)
            /\ \A i \in 1..n : fetchLog[i].task = i
            /\ pc = "fetch" => idx = n + 1 /\ idx <= Len(searchQueries) /\ llmLog = <<>>
            /\ pc # "fetch" => n = Len(searchQueries)
            /\ pc \in {"resolved", "rejected"} => Len(llmLog) = 1
            /\ Len(scrapeErrors) = Cardinality(thrown)
            /\ \A i \in thrown :
                scrapeErrors[Cardinality({j \in thrown : j <= i})]
                    = label(searchQueries[i]) \o ": " \o fetchLog[i].message

\* C4 witness: the loop is over with the completion call awaited; a task with
\* a label longer than 60 characters threw, a later task returned, and a task
\* after that threw again.
C4_Witness ==
    /\ via = "execute"
    /\ pc = "llm"
    /\ \E i, j, k \in 1..Len(fetchLog) :
        /\ i < j /\ j < k
        /\ fetchLog[i].threw /\ ~fetchLog[j].threw /\ fetchLog[k].threw
    /\ \E i \in 1..Len(fetchLog) :
        /\ fetchLog[i].threw
        /\ Len(TaskKey(searchQueries[i])) > 60

\* C5: the mode of a lead run is decided by the fetch outcomes alone: it is
\* scraped exactly when at least one task returned and yielded content, and
\* ai_prospecting otherwise, as it is for no tasks at all; there is no other
\* mode.
C5_ModeFromFetchOutcomes ==
    /\ SelectMode(0, 0, <<>>) = "ai_prospecting"
    /\ via = "execute" =>
        /\ mode \in {"", "scraped", "ai_prospecting"}
        /\ mode = "" <=> pc \in {"idle", "fetch"} \/ inputData = "null"
        /\ mode # "" =>
            (mode = "scraped" <=>
                \E i \in 1..Len(fetchLog) :
                    ~fetchLog[i].threw /\ fetchLog[i].yielded > 0)

\* C5 witness: the mode is scraped after a run in which tasks threw and one
\* task yielded content.
C5_Witness ==
    /\ via = "execute"
    /\ mode = "scraped"
    /\ scrapeErrors # <<>>
    /\ Cardinality({i \in 1..Len(fetchLog) : fetchLog[i].yielded > 0}) = 1

C7_ZeroMaxLeads ==
    via = "execute" /\ inputData # "null"
        /\ input.max_leads = <<0>> /\ llmLog # <<>> /\ ~llmLog[1].threw =>
            /\ contacts = <<>>
            /\ \A i \in 1..Len(events) : events[i].eventType # "lead_found"
            /\ row.status = "completed"

\* C8: for max_leads >= 1, and for max_leads absent with the bound 10, a lead
\* run creates at most that many contacts: for an answer that is an array of
\* k leads, the first min(k, bound) of them, in the array's order.
C8_AtMostMaxLeads ==
    via = "execute" /\ inputData # "null"
        /\ input.max_leads # <<0>> /\ llmLog # <<>> =>
            LET bound == IF input.max_leads = <<>> THEN 10 ELSE input.max_leads[1]
            IN  /\ Len(contacts) <= bound
                /\ \A k \in {0, 3, 11} :
                    llmLog[1].text = ArrayJson(NamedLeads(k)) =>
                        /\ Len(contacts) = Min(k, bound)
                        /\ \A i \in 1..Len(contacts) :
                            contacts[i].first_name = LeadNames[i]

\* C8 witness: max_leads is 2, the answer holds three leads, and the run has
\* created the first two.
C8_Witness ==
    /\ via = "execute"
    /\ input.max_leads = <<2>>
    /\ llmLog # <<>> /\ llmLog[1].text = ArrayJson(NamedLeads(3))
    /\ Len(contacts) = 2
    /\ row.status = "completed"

\* C9: the date hint of buildSearchQueries is a function of the recency value:
\* "past week" for 1week, "past month" for 1month, "2025" for 3months and for
\* 6months, none for any, and "2025" for every other value.  Every template
\* search ends with a space and the hint, or with no date term when there is
\* no hint; every keyword search is the keyword followed by a space and the
\* hint, or the keyword alone when there is no hint or the keyword names a
\* date itself.
C9_DateHintFromRecency ==
    via = "execute" /\ inputData # "null" /\ pc # "idle" =>
        LET recency == IF input.recency # "" THEN input.recency
                       ELSE IF profile.mode = "political" THEN "3months" ELSE "1week"
            hint == CASE recency = "1week"   -> "past week"
                      [] recency = "1month"  -> "past month"
                      [] recency = "3months" -> "2025"
                      [] recency = "6months" -> "2025"
                      [] recency = "any"     -> ""
                      [] OTHER               -> "2025"
            given == OrEmpty(input.keywords)
            dated(k) == Includes(k, "2025") \/ Includes(k, "week") \/ Includes(k, "month")
            expected == { IF hint # "" /\ ~dated(given[i]) THEN given[i] \o " " \o hint
                                                          ELSE given[i] :
                            i \in {j \in 1..Len(given) : given[j] # ""} }
        IN  \A i \in 1..Len(searchQueries) :
                LET q == searchQueries[i]
                IN  /\ q.type = "keyword" => q.search \in expected
                    /\ q.type \notin {"keyword", "user_source"} =>
                        IF hint = ""
                        THEN /\ ~EndsWith(q.search, " 2025")
                             /\ ~EndsWith(q.search, " past week")
                             /\ ~EndsWith(q.search, " past month")
                        ELSE EndsWith(q.search, " " \o hint)

\* C10: the list buildSearchQueries returns holds no two tasks with the same
\* key (url, or search string); it is the constructed list (explicit URLs,
\* then template searches, then keywords) with exactly those tasks removed
\* whose key an earlier constructed task has, the rest in construction order.
C10_FirstOccurrenceKept ==
    via = "execute" /\ inputData # "null" /\ pc # "idle" =>
        LET built == ConstructQueries(profile, input.keywords, input.sources,
                                      RecencyFilter(profile, input))
            key(q) == IF q.url # "" THEN q.url ELSE q.search
            first == {i \in 1..Len(built) :
                        \A j \in 1..(i - 1) : key(built[j]) # key(built[i])}
            rank(i) == Cardinality({j \in first : j <= i})
            group(q) == CASE q.type = "user_source" -> 1
                          [] q.type = "keyword"     -> 3
                          [] OTHER                  -> 2
        IN  /\ \A i, j \in 1..Len(searchQueries) :
                i # j => key(searchQueries[i]) # key(searchQueries[j])
            /\ Len(searchQueries) = Cardinality(first)
            /\ \A i \in first : searchQueries[rank(i)] = built[i]
            /\ \A i, j \in 1..Len(searchQueries) :
                i < j => group(searchQueries[i]) <= group(searchQueries[j])

\* C10 witness: tasks were dropped, among them a keyword whose search string
\* is the url of an explicit source, and the keywords that are kept follow
\* the template searches.
C10_Witness ==
    /\ via = "execute" /\ pc = "fetch"
    /\ input.sources = << <<"roof leak this week">> >>
    /\ input.keywords # <<>> /\ Len(input.keywords[1]) = 5
    /\ Len(searchQueries)
          < Len(ConstructQueries(profile, input.keywords, input.sources,
                                 RecencyFilter(profile, input)))
    /\ searchQueries[1].url = "roof leak this week"
    /\ searchQueries[Len(searchQueries)].type = "keyword"
    /\ \A i \in 1..Len(searchQueries) : searchQueries[i].search # "roof leak this week"

\* C11: the registry maps the lead pipeline's agent type to its executor like
\* every other type of the closed set: getAgentRunner does not throw for it,
\* and a run triggered through POST /agents/run with that type has its row
\* created and runs LeadGeneratorAgent.execute, whose first event is
\* agent_start.
C11_RegistryMapsLeadPipeline ==
    via = "agents_run" /\ agentType = "lead_generator" /\ db.profile_found
            /\ pc # "idle" =>
        /\ ~UnknownAgentType(agentType)
        /\ row.status # "absent"
        /\ response = "running"
        /\ events # <<>> /\ events[1].eventType = "agent_start"

\* C12: a run launched by a route while LLM_PROVIDER or SCRAPE_PROVIDER names
\* no provider of the table ends failed with the error that names the unknown
\* provider, and no provider call, activity event, contact or sentiment write
\* was made for it.
C12_UnknownProviderFailsFast ==
    /\ via \in {"agents_run", "queue_draft"}
    /\ pc \notin {"idle", "refused", "insert_failed"}
    /\ LlmName(env) \notin LlmProviders \/ ScraperName(env) \notin ScraperProviders
    =>
        /\ pc = "unlaunched"
        /\ row.status = "failed"
        /\ row.output_data =
              [error |-> IF LlmName(env) \notin LlmProviders
                         THEN "Unknown LLM provider: " \o LlmName(env)
                         ELSE "Unknown scrape provider: " \o ScraperName(env)]
        /\ events = <<>> /\ fetchLog = <<>> /\ llmLog = <<>>
        /\ contacts = <<>> /\ sentiment = <<>>

\* C13: provider resolution is memoized: over the life of the process the
\* completion provider is resolved from the configuration at most once and
\* the discovery provider at most once, so all runs use the provider first
\* resolved, whatever LLM_PROVIDER and SCRAPE_PROVIDER are set to later.
C13_ResolutionMemoized ==
    \A i, j \in 1..Len(resolutions) :
        resolutions[i].kind = resolutions[j].kind =>
            /\ i = j
            /\ resolutions[i].made = resolutions[j].made

\* C14: completeRun and failRun are last-write-wins: after any sequence of
\* terminal calls on one run, the row's status and output_data are the ones
\* the last call set, whatever the earlier calls left.
C14_LastWriteWins ==
    ledger # <<>> =>
        /\ row.status = ledger[Len(ledger)].status
        /\ row.output_data = ledger[Len(ledger)].output_data

\* C14 witness: failRun was called after completeRun, then completeRun again,
\* and the row is completed with the last call's output.
C14_Witness ==
    /\ Len(ledger) = 3
    /\ ledger[1].by = "completeRun" /\ ledger[2].by = "failRun"
    /\ ledger[3].by = "completeRun"
    /\ ledger[3].output_data # ledger[1].output_data
    /\ row = [status |-> "completed", output_data |-> ledger[3].output_data]

\* C15: in a lead-pipeline run the events come in the order agent_start,
\* scanning, (scrape_errors,) analyzing, one lead_found per contact created,
\* agent_complete.  While a fetch is awaited only agent_start and scanning
\* have been emitted and no completion call was made; while the completion
\* call is awaited every fetch has settled, analyzing is the last event and
\* no lead_found exists; a completed row has agent_complete as its last event.
C15_EventOrder ==
    via = "execute" =>
        LET types == [i \in 1..Len(events) |-> events[i].eventType]
            found == [i \in 1..Len(contacts) |-> "lead_found"]
            untilAnalyzing ==
                { <<"agent_start", "scanning">> \o e \o <<"analyzing">> :
                    e \in {<<>>, <<"scrape_errors">>} }
        IN  /\ pc = "fetch" =>
                /\ types = <<"agent_start", "scanning">>
                /\ llmLog = <<>>
            /\ pc = "llm" =>
                /\ types \in untilAnalyzing
                /\ Len(fetchLog) = Len(searchQueries)
                /\ llmLog = <<>> /\ contacts = <<>> /\ ledger = <<>>
            /\ row.status = "completed" =>
                /\ pc = "resolved"
                /\ Len(llmLog) = 1
                /\ \E t \in untilAnalyzing : types = t \o found \o <<"agent_complete">>

\* C15 witness: a completed run with a failed fetch and three contacts.
C15_Witness ==
    /\ via = "execute" /\ pc = "resolved" /\ row.status = "completed"
    /\ Len(contacts) = 3
    /\ Len(events) = 8
    /\ events[3].eventType = "scrape_errors"
    /\ events[8].eventType = "agent_complete"

\* C16: once the fetch loop is over, the log holds one scrape_errors event if
\* some task threw and none if no task threw; the event's detail is the first
\* min(3, k) of the k error entries, in task order; and a run in which some
\* tasks threw while others yielded content is in scraped mode and, when it
\* completes, has inserted one contact per extracted lead.
C16_OneScrapeErrorsEvent ==
    (via = "execute" /\ pc \in {"llm", "resolved", "rejected"}
        /\ searchQueries # <<>> /\ Len(fetchLog) = Len(searchQueries)) =>
        LET thrown == SelectSeq(fetchLog, LAMBDA f : f.threw)
            k == Len(thrown)
            entries == [i \in 1..k |->
                            ErrorEntry(searchQueries[thrown[i].task], thrown[i].message)]
            reported == SelectSeq(events, LAMBDA e : e.eventType = "scrape_errors")
        IN  /\ Len(reported) = IF k > 0 THEN 1 ELSE 0
            /\ k > 0 => reported[1].detail = Join(SubSeq(entries, 1, Min(ErrorsInEvent, k)), " | ")
            /\ (k > 0 /\ \E i \in 1..Len(fetchLog) : fetchLog[i].yielded > 0) =>
                /\ mode = "scraped"
                /\ row.status = "completed" =>
                        Len(contacts) = Len(ParseLeads(llmLog[1].text, MaxLeads(input)))

\* C16 witness: a completed scraped run in which more than three tasks threw
\* and three leads became contacts.
C16_Witness ==
    /\ via = "execute" /\ pc = "resolved" /\ row.status = "completed"
    /\ Len(SelectSeq(fetchLog, LAMBDA f : f.threw)) > ErrorsInEvent
    /\ \E i \in 1..Len(fetchLog) : fetchLog[i].yielded > 0
    /\ mode = "scraped"
    /\ Len(contacts) = 3
    /\ Len(SelectSeq(events, LAMBDA e : e.eventType = "scrape_errors")) = 1

\* C17: in a completed lead-pipeline run the contacts inserted, the
\* lead_found events, the extracted leads and the output's leads_found are
\* equally many, and the i-th lead_found references the i-th contact, which
\* is the one inserted for the i-th extracted lead.
C17_CountsAgree ==
    (via = "execute" /\ row.status = "completed") =>
        LET leads == ParseLeads(llmLog[1].text, MaxLeads(input))
            found == SelectSeq(events, LAMBDA e : e.eventType = "lead_found")
        IN  /\ Len(contacts) = Len(leads)
            /\ Len(found) = Len(leads)
            /\ row.output_data.leads_found = Len(leads)
            /\ \A i \in 1..Len(found) :
                /\ found[i].contactId = contacts[i].id
                /\ contacts[i].first_name = leads[i].first_name
                /\ \A j \in 1..Len(contacts) : contacts[j].id = contacts[i].id => j = i

\* C17 witness: a completed run that extracted ten leads of eleven answered.
C17_Witness ==
    /\ via = "execute" /\ row.status = "completed"
    /\ llmLog[1].text = ArrayJson(NamedLeads(11))
    /\ Len(contacts) = DefaultMaxLeads
    /\ row.output_data.leads_found = DefaultMaxLeads
    /\ events[Len(events) - 1] = [eventType |-> "lead_found",
                                  contactId |-> contacts[DefaultMaxLeads].id, detail |-> ""]

\* C18: in the donor closer a failure of a step of the CRM sync never fails
\* the run: a run that reached the sync ends completed; a run whose
\* completion call succeeded and whose contact bookkeeping was accepted
\* reaches the sync; and the steps inside the sync's if are taken only with a
\* verified nationbuilder integration and a contact that has an external_id.
C18_SyncNeverFailsRun ==
    agentType = "donor_closer" =>
        /\ (crmLog # <<>> /\ pc \notin {"crm_tag", "crm_note"}) =>
                pc = "resolved" /\ row.status = "completed"
        /\ (llmLog # <<>> /\ ~llmLog[1].threw
              /\ (input.contact = <<>> \/ input.contact[1].id = ""
                    \/ ~SentimentRejected(input.contact[1].id))) =>
                crmLog # <<>>
        /\ (pc \in {"crm_tag", "crm_note"}
              \/ \E i \in 1..Len(crmLog) : crmLog[i].step # "lookup") =>
                /\ db.integration \in {"verified", "badconfig"}
                /\ input.contact # <<>>
                /\ input.contact[1].external_id # ""

\* C18 witness: addTag resolved, addNote failed, and the run is completed.
C18_Witness ==
    /\ agentType = "donor_closer" /\ pc = "resolved" /\ row.status = "completed"
    /\ Len(crmLog) = 5
    /\ crmLog[4] = SyncStep("addTag", FALSE)
    /\ crmLog[5] = SyncStep("addNote", TRUE)

\* C19: a run triggered through a route has its row, written with status
\* running, before the executor does anything, and its response is sent by
\* the trigger itself: while the executor awaits a provider call the row is
\* running, no terminal write exists and the response is already out; the
\* response stays out whatever the executor does afterwards.
C19_RowFirstResponseUnawaited ==
    (via \in {"agents_run", "queue_draft"} /\ agentType \in RegistryTypes) =>
        /\ pc \notin {"idle", "refused"} =>
                response = "running" /\ row.status # "absent"
        /\ pc \in {"kb", "llm", "scout", "research", "crm_tag", "crm_note"} =>
                row.status = "running" /\ ledger = <<>>
        /\ (events # <<>> \/ fetchLog # <<>> \/ llmLog # <<>> \/ crmLog # <<>>) =>
                row.status # "absent"

\* C19 witness: the response is out, no provider call has settled and the
\* executor is waiting for its first one.
C19_Witness ==
    /\ via = "agents_run" /\ response = "running"
    /\ pc \in {"kb", "llm", "scout", "research"}
    /\ fetchLog = <<>> /\ llmLog = <<>>
    /\ row.status = "running"

\* C20: an answer that is a JSON array inside a code fence, with or without
\* the json tag and with whitespace around it, is parsed to that array cut to
\* max_leads, and an unfenced array is parsed to itself.
C20_FencedArrayParsed ==
    (via = "execute" /\ llmLog # <<>> /\ ~llmLog[1].threw) =>
        \A a \in LeadArrays :
            LET json == ArrayJson(a)
                answers == { json,
                             Fence \o "json\n" \o json \o "\n" \o Fence,
                             " " \o Fence \o "json\n" \o json \o "\n" \o Fence \o "\n",
                             Fence \o "\n" \o json \o "\n" \o Fence,
                             " " \o Fence \o "\n" \o json \o "\n" \o Fence \o "\n" }
            IN  llmLog[1].text \in answers =>
                    ParseLeads(llmLog[1].text, MaxLeads(input)) = Slice(a, MaxLeads(input))

\* C21: a run that called the completion provider, or the configured
\* discovery provider, while that provider's credential was not set never
\* ends completed.
C21_MissingCredentialFatal ==
    (\/ KeyMissing(LlmKey(env), env) /\ llmLog # <<>>
     \/ /\ KeyMissing(ScraperKey(env), env)
        /\ \E i \in 1..Len(fetchLog) :
              fetchLog[i].threw /\ fetchLog[i].message = ScraperKey(env) \o " not set")
        => row.status # "completed"

\* C22: a scrape or search call that threw never ends the run: a run in which
\* a fetch threw and which is over has made its completion call, and when it
\* failed the error raised is not the fetch's.
C22_FetchFailureAbsorbed ==
    \A i \in 1..Len(fetchLog) :
        (fetchLog[i].threw /\ pc \in {"resolved", "rejected", "handled"}) =>
            /\ llmLog # <<>>
            /\ raised # <<>> => raised[1].message # fetchLog[i].message

\* C23: every contact a lead-pipeline run created in ai_prospecting mode has
\* source 'ai_prospecting', and a contact created in scraped mode from a lead
\* without a source has source 'web_scrape'.
C23_SourceFollowsMode ==
    via = "execute" =>
        \A i \in 1..Len(contacts) :
            LET leads == ParseLeads(llmLog[1].text, MaxLeads(input))
            IN  /\ mode = "ai_prospecting" => contacts[i].source = "ai_prospecting"
                /\ (mode = "scraped" /\ leads[i].source = "") =>
                        contacts[i].source = "web_scrape"

\* C23 (amended): a contact keeps the source its lead supplied; a contact
\* created from a lead without a source has source 'ai_prospecting' in
\* ai_prospecting mode and 'web_scrape' in scraped mode.
C23_SourceFallsBackToMode ==
    via = "execute" =>
        \A i \in 1..Len(contacts) :
            LET lead == ParseLeads(llmLog[1].text, MaxLeads(input))[i]
            IN  contacts[i].source =
                    IF lead.source # "" THEN lead.source
                    ELSE IF mode = "ai_prospecting" THEN "ai_prospecting"
                    ELSE "web_scrape"

\* C23 witness: a completed ai_prospecting run with a contact whose source is
\* the lead's and a contact whose source is the mode's.
C23_Witness ==
    /\ via = "execute" /\ row.status = "completed" /\ mode = "ai_prospecting"
    /\ Len(contacts) = 4
    /\ contacts[1].source = "Reddit r/plumbing (simulated)"
    /\ contacts[2].source = "ai_prospecting"

\* C24: a contact of a business profile is warm exactly when its lead's
\* relevance score is at least 70 and cold otherwise; a lead without a score
\* is stored with score 50 and is cold; a contact of a political profile has
\* voter_intent unknown and donor_intent none whatever its score.
C24_MaterializationDefaults ==
    via = "execute" =>
        \A i \in 1..Len(contacts) :
            LET lead == ParseLeads(llmLog[1].text, MaxLeads(input))[i]
                scored == lead.relevance_score # <<>>
            IN  /\ profile.mode # "political" =>
                    /\ contacts[i].lead_status \in {"warm", "cold"}
                    /\ contacts[i].lead_status = "warm" <=>
                            (scored /\ lead.relevance_score[1] >= 70)
                /\ ~scored => contacts[i].lead_score = 50 /\ contacts[i].lead_status = "cold"
                /\ profile.mode = "political" =>
                    /\ contacts[i].voter_intent = "unknown"
                    /\ contacts[i].donor_intent = "none"

\* C24 witness: a business run with a warm contact of score 70, a cold one of
\* score 69 and a warm one of score 85.
C24_Witness ==
    /\ via = "execute" /\ row.status = "completed" /\ profile.mode # "political"
    /\ Len(contacts) = 4
    /\ contacts[1].lead_score = 70 /\ contacts[1].lead_status = "warm"
    /\ contacts[2].lead_score = 69 /\ contacts[2].lead_status = "cold"
    /\ contacts[4].lead_status = "warm"

\* C25: a lead-pipeline run makes at most one completion call, and exactly
\* one when it completes; the call is made when every fetch task has settled,
\* in either mode; once it has settled, whether with an answer that does not
\* parse or with an error, the run is over: no second call and no fetch.
C25_OneCompletionCall ==
    via = "execute" =>
        /\ Len(llmLog) + (IF pc = "llm" THEN 1 ELSE 0) <= 1
        /\ row.status = "completed" => Len(llmLog) = 1
        /\ (pc = "llm" \/ llmLog # <<>>) =>
                /\ Len(fetchLog) = Len(searchQueries)
                /\ mode \in {"scraped", "ai_prospecting"}
        /\ llmLog # <<>> => pc \in {"resolved", "rejected"}

\* C25 witness: the one answer did not parse and the run completed with no
\* leads, every fetch having settled before.
C25_Witness ==
    /\ via = "execute" /\ row.status = "completed"
    /\ Len(llmLog) = 1 /\ llmLog[1].text = "not json"
    /\ fetchLog # <<>> /\ Len(fetchLog) = Len(searchQueries)
    /\ contacts = <<>>

\* C26: when every provider call settles, a run whose row is running and
\* whose executor has been called eventually has a completed or failed row,
\* and no row is ever queued.
C26_RunningRunTerminates ==
    /\ [](row.status # "queued")
    /\ (row.status = "running" /\ pc # "idle") ~> (row.status \in {"completed", "failed"})

\* C26 witness: a directly executed run that awaited its fetches and its
\* completion call has ended failed.
C26_Witness ==
    /\ via = "execute" /\ row.status = "failed" /\ pc = "rejected"
    /\ fetchLog # <<>> /\ llmLog # <<>>

\* C27: in the step in which a route answers with status 'running', the
\* run's row has status running.
C27_ResponseMatchesRow ==
    [][(response # "running" /\ response' = "running") => row'.status = "running"]_vars

\* C28: a lead-pipeline run whose row is failed has inserted no contact and
\* emitted no lead_found event.
C28_FailedRunLeavesNoContacts ==
    (via = "execute" /\ row.status = "failed") =>
        /\ contacts = <<>>
        /\ \A i \in 1..Len(events) : events[i].eventType # "lead_found"

\* C29 (as stated): with donor_closer runs interleaved on one contact, a run
\* that has a contact id and is over has appended exactly one sentiment row.
C29_EveryRunAppendsOneRow ==
    (input.contact[1].id # "" /\ \A r \in 1..MaxDonorRuns : pc[r] \in {"resolved", "handled"}) =>
        Len(sentiment) = MaxDonorRuns

\* C29 (amended): for every interleaving of donor_closer runs on one contact,
\* donor_intent changes only from none or potential to warm; once a run has
\* got its message for a stored contact the value is warm unless it was warm
\* or donated; the sentiment rows are as many as the runs that got their
\* message for a stored contact, each with score 20 and intent_type donor;
\* and no step changes or removes an earlier row.
C29_DonorIntentOnlyWarms ==
    /\ [](LET asked == {r \in 1..MaxDonorRuns : llmLog[r] # <<>> /\ ~llmLog[r][1].threw}
              stored == input.contact[1].id # ""
                            /\ ~SentimentRejected(input.contact[1].id)
          IN  /\ Len(sentiment) = IF stored THEN Cardinality(asked) ELSE 0
              /\ \A i \in 1..Len(sentiment) :
                    sentiment[i] = [contact_id |-> input.contact[1].id,
                                    issue |-> "donation_ask",
                                    sentiment_score |-> 20, intent_type |-> "donor"]
              /\ (stored /\ asked # {}) => donorIntent \in {"warm", "donated"})
    /\ [][/\ donorIntent' # donorIntent =>
                donorIntent \in {"none", "potential"} /\ donorIntent' = "warm"
          /\ Len(sentiment') >= Len(sentiment)
          /\ SubSeq(sentiment', 1, Len(sentiment)) = sentiment]_vars

\* C29 witness: two runs on a contact that was potential both got their
\* message while the other was in flight; the contact is warm and has two
\* sentiment rows.
C29_Witness ==
    /\ \A r \in 1..MaxDonorRuns : pc[r] \in {"resolved", "crm_tag", "crm_note"}
    /\ \E r \in 1..MaxDonorRuns : pc[r] # "resolved"
    /\ donorIntent = "warm"
    /\ Len(sentiment) = MaxDonorRuns

\* C30: the output of a completed donor_closer run has crm_synced = true only
\* if a verified nationbuilder integration existed, the contact had an
\* external_id, and both addTag and addNote returned without error.
C30_CrmSyncedOnlyAfterSync ==
    (/\ agentType = "donor_closer"
     /\ row.status = "completed"
     /\ row.output_data.crm_synced) =>
        /\ db.integration = "verified"
        /\ input.contact # <<>>
        /\ input.contact[1].external_id # ""
        /\ \E i, j \in 1..Len(crmLog) :
              /\ i < j
              /\ crmLog[i] = SyncStep("addTag", FALSE)
              /\ crmLog[j] = SyncStep("addNote", FALSE)

====
